---- MODULE Spec2Model ----
(***************************************************************************)
(* A model of the my_trades package: csv ingestion with deterministic      *)
(* transaction ids and de-duplicating insertion (record.py, database.py),  *)
(* the short-/long-term gain fold (gain_loss.py), and the date and symbol  *)
(* filters in their in-memory and SQL renderings (transaction.py).         *)
(*                                                                         *)
(* Conventions.  Calendar dates are day ordinals (integers).  Decimal      *)
(* amounts are integers counted in thousandths, so that the rounding of    *)
(* '{:.2f}' and the truncation of int(x * 100) are visible.  Text that is  *)
(* formatted, split or quoted is a sequence of one-character strings.      *)
(* uuid3 is taken to be injective on its name, so a transaction id is the  *)
(* name it hashes: the pair <<key, sequence number>>.                      *)
(***************************************************************************)
EXTENDS Integers, Sequences, FiniteSets, TLC

VARIABLES
    \* ---- ingestion (record.py, database.py) ----
    file,        \* the csv file: a sequence of rows (header already skipped)
    account,     \* the account number the file is ingested under
    pc,          \* "idle" | "building": position of the single-threaded run
    pos,         \* index of the next csv row the generator will yield
    registry,    \* new_transaction_id's registry: key -> numbers handed out
    existing,    \* existing_transaction_ids read by insert_to_db
    pending,     \* trades_not_in_db buffered by tee, in row order
    runIds,      \* transaction_ids assigned by the current/last ingestion
    procIds,     \* transaction_ids assigned since the process started
    store,       \* rows of table trade
    accountTbl,  \* rows of table account
    symbolTbl,   \* rows of table symbol
    ingestions,  \* completed ingestions of the file
    procRuns,    \* completed ingestions in the current process
    snapshot     \* table trade as it was after the first ingestion

ingestVars == <<file, account, pc, pos, registry, existing, pending, runIds,
                procIds, store, accountTbl, symbolTbl, ingestions, procRuns,
                snapshot>>

VARIABLES
    \* ---- gain/loss fold (gain_loss.py) ----
    cumulative,  \* cumulative_gain_loss: <<short term, long term>>
    totalGain,   \* sum of proceed - cost over the folded transactions
    folded,      \* number of transactions folded so far
    lastTxn      \* the transaction folded last

gainVars == <<cumulative, totalGain, folded, lastTxn>>

VARIABLES
    \* ---- csv date filter (transaction.py, filter_transaction_by_dates) ----
    refDates,    \* filtered_dates: the reference dates parsed from -dates
    txn,         \* the transaction the predicate is applied to
    flagged,     \* what transaction_in_filtered_date returned, or "unset"
    \* ---- date filter in memory and in SQL (transaction.py) ----
    tokens,      \* the date filter string, split on ","
    probe,       \* the date being checked / the row's field value
    memResult,   \* outcome of in_date_range(...)(probe), or "unset"
    sqlResult    \* is the row selected by dates_filter_sql, or "unset"

washVars == <<refDates, txn, flagged>>
dateVars == <<tokens, probe, memResult, sqlResult>>

VARIABLES
    \* ---- symbol and account filters (transaction.py) ----
    symbols,      \* the -symbols string
    accountType,  \* the -account value handed to new_account_filter_sql
    rowSymbol,    \* the root symbol of the transaction / trade row
    memSelected,  \* outcome of the in-memory symbol predicate, or "unset"
    sqlSelected,  \* outcome of the SQL symbol condition, or "unset"
    queryWhere    \* the text returned by new_where_sql, or Unset

symVars == <<symbols, accountType, rowSymbol, memSelected, sqlSelected,
             queryWhere>>

VARIABLES
    \* ---- the composed WHERE clause (transaction.py, new_where_sql) ----
    acctCond,      \* the account condition handed to new_where_sql, or <<>>
    symCond,       \* the symbol condition, or <<>>
    expAlts,       \* the alternatives of the expiration filter
    dateAlts,      \* the alternatives of the sold-date filter
    rowTruth,      \* SQLite's value of each condition on the trade row
    whereText,     \* the text returned by new_where_sql, or Unset
    whereSelected  \* is the row selected by the query, or "unset"

whereVars == <<acctCond, symCond, expAlts, dateAlts, rowTruth, whereText,
                 whereSelected>>

VARIABLES
    \* ---- symbol decoder (record.py, extract_symbol) ----
    descParts,   \* what the descriptor was written from: root, block, tail
    descriptor,  \* the symbol descriptor, character by character
    decoded      \* what extract_symbol returned or raised, or NotDecoded

decodeVars == <<descParts, descriptor, decoded>>

VARIABLES
    \* ---- currency fields (record.py, convert_currency) ----
    amountText,  \* the text of a currency field, character by character
    converted    \* what convert_currency returned or raised, or NotConverted

currencyVars == <<amountText, converted>>

VARIABLES
    \* ---- reading a CSV file (record.py, csv_to_transactions) ----
    csvFile,     \* the rows after the header: symbol, proceeds, cost
    csvLine,     \* the row the reader is at
    yielded,     \* the transactions the generator has yielded so far
    csvOutcome   \* "reading", "exhausted", or the exception that ended it

csvVars == <<csvFile, csvLine, yielded, csvOutcome>>

VARIABLES
    \* ---- text report (transaction.py, report_in_text) ----
    reportSource,  \* the transactions of the run, in the order they arrive
    reportResult,  \* the dict handed to report_in_text: groups by symbol
    reportAt,      \* the group report_in_text is at; 0 before the header
    reportLines,   \* the lines yielded so far
    totalSummary,  \* total_summary
    reportOutcome  \* "reporting", "done", or the exception that ended it

reportVars == <<reportSource, reportResult, reportAt, reportLines,
                  totalSummary, reportOutcome>>

VARIABLES
    \* ---- inserting a batch (database.py, insert_transactions) ----
    batch,          \* the transactions passed to insert_transactions
    tradeTbl,       \* the committed rows of trade
    tradeTblBefore, \* the rows of trade before insert_to_db was called
    accountRows,    \* the committed rows of account
    symbolRows,     \* the committed rows of symbol
    insertOutcome   \* "pending", "done", or the exception that ended it

insertVars == <<batch, tradeTbl, tradeTblBefore, accountRows, symbolRows,
                insertOutcome>>

VARIABLES
    \* ---- CaseInsensitiveDict (db/schema.py) ----
    dictObj,     \* the dictionary: its _name_map and its entries
    assigned,    \* last value given to each key, string keys lower-cased
    firstUsed,   \* first spelling used for each lower-cased string key
    lastRaised,  \* exception of the latest assignment, or "none"
    assignments  \* number of assignments made; -1 when not in use

dictVars == <<dictObj, assigned, firstUsed, lastRaised, assignments>>

VARIABLES
    \* ---- Table (db/schema.py) ----
    columnsOne,  \* the columns given to Table("t1", ...)
    columnsTwo,  \* the columns given to Table("t2", ...)
    tableOne,    \* t1: not constructed, the object, or the exception
    tableTwo     \* t2, whose first column has a ForeignKey to t1

tableVars == <<columnsOne, columnsTwo, tableOne, tableTwo>>

VARIABLES
    \* ---- Transaction to Trade and back (database.py) ----
    original,    \* the Transaction handed to transactions_to_trades
    asTrade,     \* the Trade made of it, or NoTrade
    restored     \* trade_to_transaction of that Trade, or NoTransaction

roundVars == <<original, asTrade, restored>>

vars == <<ingestVars, gainVars, washVars, dateVars, symVars, whereVars,
          decodeVars, currencyVars, csvVars, reportVars, insertVars,
          dictVars, tableVars, roundVars>>

notIngestVars == <<gainVars, washVars, dateVars, symVars, whereVars,
                   decodeVars, currencyVars, csvVars, reportVars,
                   insertVars, dictVars, tableVars, roundVars>>
notGainVars == <<ingestVars, washVars, dateVars, symVars, whereVars,
                 decodeVars, currencyVars, csvVars, reportVars, insertVars,
                 dictVars, tableVars, roundVars>>
notWashVars == <<ingestVars, gainVars, dateVars, symVars, whereVars,
                 decodeVars, currencyVars, csvVars, reportVars, insertVars,
                 dictVars, tableVars, roundVars>>
notDateVars == <<ingestVars, gainVars, washVars, symVars, whereVars,
                 decodeVars, currencyVars, csvVars, reportVars, insertVars,
                 dictVars, tableVars, roundVars>>
notSymVars == <<ingestVars, gainVars, washVars, dateVars, whereVars,
                decodeVars, currencyVars, csvVars, reportVars, insertVars,
                dictVars, tableVars, roundVars>>
notWhereVars == <<ingestVars, gainVars, washVars, dateVars, symVars,
                  decodeVars, currencyVars, csvVars, reportVars, insertVars,
                  dictVars, tableVars, roundVars>>
notDecodeVars == <<ingestVars, gainVars, washVars, dateVars, symVars,
                   whereVars, currencyVars, csvVars, reportVars, insertVars,
                   dictVars, tableVars, roundVars>>
notCurrencyVars == <<ingestVars, gainVars, washVars, dateVars, symVars,
                     whereVars, decodeVars, csvVars, reportVars, insertVars,
                     dictVars, tableVars, roundVars>>
notCsvVars == <<ingestVars, gainVars, washVars, dateVars, symVars,
                whereVars, decodeVars, currencyVars, reportVars, insertVars,
                dictVars, tableVars, roundVars>>
notReportVars == <<ingestVars, gainVars, washVars, dateVars, symVars,
                   whereVars, decodeVars, currencyVars, csvVars, insertVars,
                   dictVars, tableVars, roundVars>>
notInsertVars == <<ingestVars, gainVars, washVars, dateVars, symVars,
                   whereVars, decodeVars, currencyVars, csvVars, reportVars,
                   dictVars, tableVars, roundVars>>
notDictVars == <<ingestVars, gainVars, washVars, dateVars, symVars,
                 whereVars, decodeVars, currencyVars, csvVars, reportVars,
                 insertVars, tableVars, roundVars>>
notTableVars == <<ingestVars, gainVars, washVars, dateVars, symVars,
                  whereVars, decodeVars, currencyVars, csvVars, reportVars,
                  insertVars, dictVars, roundVars>>
notRoundVars == <<ingestVars, gainVars, washVars, dateVars, symVars,
                  whereVars, decodeVars, currencyVars, csvVars, reportVars,
                  insertVars, dictVars, tableVars>>

----------------------------------------------------------------------------
\* Bounds of the model.
MaxRows == 2        \* rows in the csv file
MaxIngest == 3      \* ingestions of the file
MaxFold == 3        \* transactions folded by gain_loss
MaxRef == 2         \* reference dates available to -dates
MaxTokens == 2      \* tokens in a date filter string
MaxFilterDay == 3   \* latest day a date filter token names
MaxSymLen == 3      \* characters in the -symbols string
MaxAlts == 2        \* alternatives in one date filter
MaxRootLen == 2     \* characters in the root of a symbol descriptor
MaxAmountLen == 3   \* characters in a currency field
MaxCsvRows == 2     \* rows of a CSV file read by csv_to_transactions
MaxReport == 2      \* transactions handed to report_in_text
MaxBatch == 2       \* transactions in a batch given to insert_transactions
MaxAssign == 3      \* assignments made on a CaseInsensitiveDict
MaxColumns == 2     \* columns given to one Table

----------------------------------------------------------------------------
\* Generic helpers.

\* Python's None where a date is expected; dates are positive ordinals.
None == -1

Abs(n) == IF n < 0 THEN -n ELSE n

Range(s) == {s[i] : i \in 1..Len(s)}

SeqsUpTo(S, n) == UNION {[1..k -> S] : k \in 0..n}

----------------------------------------------------------------------------
\* Decimal conversions.

\* '{:.2f}'.format(Decimal): round half even to cents, sign kept ("-0.00").
Fmt2(m) ==
    LET a == Abs(m)
        q == a \div 10
        r == a % 10
        c == IF r > 5 \/ (r = 5 /\ q % 2 = 1) THEN q + 1 ELSE q
    IN  <<m < 0, c>>

\* int(x * 100): truncation toward zero.
IntCents(m) == IF m < 0 THEN -(Abs(m) \div 10) ELSE m \div 10

----------------------------------------------------------------------------
\* The csv rows of the model: well-formed stock rows.  Two proceeds that
\* differ below the cent share a key; two cusips give two keys.
Cusips == {"c1", "c2"}
Proceeds == {12000, 12004}
Accounts == {"A1", "A2"}

CsvRows == [symbol: {"aapl"}, cusip: Cusips, description: {"d"},
            quantity: {1000}, acquired_date: {100}, sold_date: {200},
            proceed: Proceeds, cost: {10000}]

\* Transaction fields before __post_init__ assigns the id.
build_transaction(account_number, entry) ==
    [account_number |-> account_number,
     holding |-> [class |-> "stock", symbol |-> entry.symbol,
                  strike |-> 0, expiration |-> None],
     cusip |-> entry.cusip, description |-> entry.description,
     quantity |-> entry.quantity, acquired_date |-> entry.acquired_date,
     sold_date |-> entry.sold_date, cost |-> entry.cost,
     proceed |-> entry.proceed]

\* key = '{}-{}-{}-{}-{:.2f}-{:.2f}-{:.2f}'.format(...).  Account numbers
\* and cusips are atoms here, so the fields of a key stay apart.
KeyOf(t) == <<t.account_number, t.cusip, t.acquired_date, t.sold_date,
              Fmt2(t.quantity), Fmt2(t.cost), Fmt2(t.proceed)>>

Keys == {KeyOf(build_transaction(a, r)) : a \in Accounts, r \in CsvRows}

\* defaultdict(lambda: count(1)) before any next().
EmptyRegistry == [k \in Keys |-> 0]

\* A plausible slip: the key alone is hashed, the counter is not consulted.
generate_id_no_sequence(reg, t) ==
    [id |-> <<KeyOf(t), 1>>,
     registry |-> [reg EXCEPT ![KeyOf(t)] = @ + 1]]

\* generate_id: next(registry[key]) and the uuid3 name.
generate_id(reg, t) ==
    [id |-> <<KeyOf(t), reg[KeyOf(t)] + 1>>,
     registry |-> [reg EXCEPT ![KeyOf(t)] = @ + 1]]

\* stock_to_trade / option_to_trade.
transaction_to_trade(t, id) ==
    [transaction_id |-> id, cusip |-> t.cusip, symbol |-> t.holding.symbol,
     account_number |-> t.account_number, equity_class |-> t.holding.class,
     strike |-> IntCents(t.holding.strike),
     quantity |-> IntCents(t.quantity),
     expiration |-> t.holding.expiration,
     acquired_date |-> t.acquired_date, sold_date |-> t.sold_date,
     cost |-> IntCents(t.cost), proceed |-> IntCents(t.proceed),
     description |-> t.description]

\* PRIMARY KEY (transaction_id): executemany fails on a repeated id.
PrimaryKeyOk(table, rows) ==
    /\ \A i, j \in 1..Len(rows) :
          rows[i].transaction_id = rows[j].transaction_id => i = j
    /\ \A i \in 1..Len(rows) :
          \A old \in table : old.transaction_id # rows[i].transaction_id

----------------------------------------------------------------------------
\* Ingestion: insert_transactions(csv_to_transactions(file, account))(conn).

IngestInit ==
    /\ file \in SeqsUpTo(CsvRows, MaxRows)
    /\ account \in Accounts
    /\ pc = "idle"
    /\ pos = 1
    /\ registry = EmptyRegistry
    /\ existing = {}
    /\ pending = <<>>
    /\ runIds = <<>>
    /\ procIds = <<>>
    /\ store = {}
    /\ accountTbl = {}
    /\ symbolTbl = {}
    /\ ingestions = 0
    /\ procRuns = 0
    /\ snapshot = {}

\* insert_to_db reads the stored ids; the lazy pipeline has read no row yet.
StartIngest ==
    /\ pc = "idle"
    /\ ingestions < MaxIngest
    /\ pc' = "building"
    /\ pos' = 1
    /\ existing' = {row.transaction_id : row \in store}
    /\ pending' = <<>>
    /\ runIds' = <<>>
    /\ UNCHANGED <<file, account, registry, procIds, store, accountTbl,
                   symbolTbl, ingestions, procRuns, snapshot>>
    /\ UNCHANGED notIngestVars

\* One csv row pulled through csv_to_transactions, transactions_to_trades
\* and the filter on existing ids, into the tee buffer.
BuildRow ==
    /\ pc = "building"
    /\ pos <= Len(file)
    /\ LET t == build_transaction(account, file[pos])
           g == generate_id(registry, t)
           trade == transaction_to_trade(t, g.id)
       IN  /\ registry' = g.registry
           /\ runIds' = Append(runIds, g.id)
           /\ procIds' = Append(procIds, g.id)
           /\ pending' = IF g.id \in existing THEN pending
                         ELSE Append(pending, trade)
    /\ pos' = pos + 1
    /\ UNCHANGED <<file, account, pc, existing, store, accountTbl, symbolTbl,
                   ingestions, procRuns, snapshot>>
    /\ UNCHANGED notIngestVars

\* The rows are exhausted: insert_account_to_db, insert_symbol_to_db,
\* executemany(INSERT_TRADE_SQL) and commit.
InsertToDb ==
    /\ pc = "building"
    /\ pos > Len(file)
    /\ accountTbl' = accountTbl \cup
                       {pending[i].account_number : i \in 1..Len(pending)}
    /\ symbolTbl' = symbolTbl \cup
                       {pending[i].symbol : i \in 1..Len(pending)}
    /\ store' = IF PrimaryKeyOk(store, pending)
                THEN store \cup Range(pending)
                ELSE store
    /\ ingestions' = ingestions + 1
    /\ procRuns' = procRuns + 1
    /\ snapshot' = IF ingestions = 0 THEN store' ELSE snapshot
    /\ pc' = "idle"
    /\ UNCHANGED <<file, account, pos, registry, existing, pending, runIds,
                   procIds>>
    /\ UNCHANGED notIngestVars

\* The process ends and the next ingestion runs in a new one: the module is
\* imported again (record.py:87), the database file stays.
NewProcess ==
    /\ pc = "idle"
    /\ procRuns > 0
    /\ registry' = EmptyRegistry
    /\ procIds' = <<>>
    /\ procRuns' = 0
    /\ UNCHANGED <<file, account, pc, pos, existing, pending, runIds, store,
                   accountTbl, symbolTbl, ingestions, snapshot>>
    /\ UNCHANGED notIngestVars

\* The other parts of the model at rest.
IngestIdle ==
    /\ file = <<>>
    /\ account = "A1"
    /\ pc = "idle"
    /\ pos = 1
    /\ registry = EmptyRegistry
    /\ existing = {}
    /\ pending = <<>>
    /\ runIds = <<>>
    /\ procIds = <<>>
    /\ store = {}
    /\ accountTbl = {}
    /\ symbolTbl = {}
    /\ ingestions = 0
    /\ procRuns = 0
    /\ snapshot = {}

----------------------------------------------------------------------------
\* Short- and long-term gain (gain_loss.py).

ONE_YEAR == 365

\* Transactions around the one-year boundary, with a gain and a loss.
GainTxns == [class: {"stock", "call", "put"}, acquired_date: {0},
             sold_date: {ONE_YEAR - 1, ONE_YEAR, ONE_YEAR + 1},
             proceed: {1000, 4000}, cost: {2000}]

IsOption(class) == class \in {"call", "put"}

calculate_long_term_gain_loss(accumulator, t) ==
    IF IsOption(t.class) THEN accumulator
    ELSE IF t.sold_date - t.acquired_date > ONE_YEAR
         THEN accumulator + (t.proceed - t.cost)
         ELSE accumulator

calculate_short_term_gain_loss(accumulator, t) ==
    IF IsOption(t.class) THEN accumulator + (t.proceed - t.cost)
    ELSE IF t.sold_date - t.acquired_date < ONE_YEAR
         THEN accumulator + (t.proceed - t.cost)
         ELSE accumulator

gain_loss(cumulative_gain_loss, t) ==
    <<calculate_short_term_gain_loss(cumulative_gain_loss[1], t),
      calculate_long_term_gain_loss(cumulative_gain_loss[2], t)>>

NoTxn == [class |-> "none"]

GainIdle ==
    /\ cumulative = <<0, 0>>
    /\ totalGain = 0
    /\ folded = 0
    /\ lastTxn = NoTxn

\* One step of reduce(gain_loss, transactions, (Decimal(0), Decimal(0))).
FoldGainLoss ==
    /\ folded < MaxFold
    /\ \E t \in GainTxns :
          /\ cumulative' = gain_loss(cumulative, t)
          /\ totalGain' = totalGain + (t.proceed - t.cost)
          /\ lastTxn' = t
    /\ folded' = folded + 1
    /\ UNCHANGED notGainVars

----------------------------------------------------------------------------
\* Date-range matcher (transaction.py, in_date_range).  An entry is a
\* record: kind "date" with field day, or kind "range" with fields start
\* and end, either of which may be None.  An outcome is "True", "False" or
\* the exception raised.

ExactDate(d) == [kind |-> "date", day |-> d]
DateRange(s, e) == [kind |-> "range", start |-> s, end |-> e]

\* date_ranges / dates: the two list comprehensions.
SelectKind(entries, k) == SelectSeq(entries, LAMBDA e : e.kind = k)

\* A plausible slip: the closed interval tested with strict comparisons.
BothBoundsStrict(start_date, end_date, d) ==
    IF start_date = None THEN "TypeError"
    ELSE IF ~(d > start_date) THEN "False"
    ELSE IF end_date = None THEN "TypeError"
    ELSE IF d < end_date THEN "True" ELSE "False"

\* The fourth test: date_being_checked >= start_date and ... <= end_date.
\* Comparing a date with None raises TypeError.
BothBounds(start_date, end_date, d) ==
    IF start_date = None THEN "TypeError"
    ELSE IF ~(d >= start_date) THEN "False"
    ELSE IF end_date = None THEN "TypeError"
    ELSE IF d <= end_date THEN "True" ELSE "False"

\* The loop over dates: for date_to_check in dates.
RECURSIVE DatesLoop(_, _, _)
DatesLoop(dates, i, d) ==
    IF i > Len(dates) THEN "False"
    ELSE IF d = dates[i].day THEN "True"
    ELSE DatesLoop(dates, i + 1, d)

\* The loop over date_ranges, falling through to the loop over dates.
RECURSIVE RangesLoop(_, _, _, _)
RangesLoop(date_ranges, dates, i, d) ==
    IF i > Len(date_ranges) THEN DatesLoop(dates, 1, d)
    ELSE LET start_date == date_ranges[i].start
             end_date == date_ranges[i].end
         IN  IF start_date = None /\ end_date = None THEN "False"
             ELSE IF start_date # None /\ d >= start_date /\ end_date = None
                  THEN "True"
             ELSE IF end_date # None /\ d <= end_date /\ start_date = None
                  THEN "True"
             ELSE LET both == BothBounds(start_date, end_date, d)
                  IN  IF both = "False"
                      THEN RangesLoop(date_ranges, dates, i + 1, d)
                      ELSE both

\* in_date_range(filtered_dates)(date_being_checked).
in_date_range(filtered_dates, d) ==
    RangesLoop(SelectKind(filtered_dates, "range"),
               SelectKind(filtered_dates, "date"), 1, d)

----------------------------------------------------------------------------
\* The csv date filter (transaction.py, filter_transaction_by_dates).

DEFAULT_DAY_RANGE == 30

\* Reference dates whose windows touch, and the days at and next to the
\* ends of their windows.
RefDays == {2 * DEFAULT_DAY_RANGE * i : i \in 1..MaxRef}

TxnDays == UNION {{r - DEFAULT_DAY_RANGE - 1, r - DEFAULT_DAY_RANGE, r,
                   r + DEFAULT_DAY_RANGE, r + DEFAULT_DAY_RANGE + 1} :
                  r \in RefDays}

ExpirationDays == RefDays \cup {r + 1 : r \in RefDays}

WashTxns ==
    [class: {"stock"}, acquired_date: TxnDays, sold_date: TxnDays,
     expiration: {None}]
    \cup [class: {"call", "put"}, acquired_date: TxnDays, sold_date: TxnDays,
          expiration: ExpirationDays]

\* A set iterated into a list, in the order the set happens to have.
RECURSIVE SetToSeq(_)
SetToSeq(S) ==
    IF S = {} THEN <<>>
    ELSE LET x == CHOOSE y \in S : TRUE
         IN  <<x>> \o SetToSeq(S \ {x})

\* transaction_period: (date_entry + DAYS_BEFORE, date_entry + DAYS_AFTER).
transaction_period(filtered_dates) ==
    SetToSeq({DateRange(r - DEFAULT_DAY_RANGE, r + DEFAULT_DAY_RANGE) :
              r \in filtered_dates})

\* a or b, where a is evaluated first and b only if a is false.
PyOr(a, b) == IF a = "False" THEN b ELSE a

\* A plausible slip: options fall through to the window test.
transaction_in_filtered_date_windowed_options(filtered_dates, t) ==
    IF filtered_dates = {} THEN "True"
    ELSE IF IsOption(t.class) /\ t.expiration \in filtered_dates THEN "True"
    ELSE PyOr(in_date_range(transaction_period(filtered_dates),
                            t.acquired_date),
              in_date_range(transaction_period(filtered_dates),
                            t.sold_date))

\* transaction_in_filtered_date(transaction).
transaction_in_filtered_date(filtered_dates, t) ==
    IF filtered_dates = {} THEN "True"
    ELSE IF IsOption(t.class)
         THEN IF t.expiration \in filtered_dates THEN "True" ELSE "False"
    ELSE PyOr(in_date_range(transaction_period(filtered_dates),
                            t.acquired_date),
              in_date_range(transaction_period(filtered_dates),
                            t.sold_date))

WashInit ==
    /\ refDates \in SUBSET RefDays
    /\ txn \in WashTxns
    /\ flagged = "unset"

WashIdle ==
    /\ refDates = {}
    /\ txn = NoTxn
    /\ flagged = "unset"

\* in_filtered_dates(transaction) in _handle_csv.
ApplyDateFilter ==
    /\ flagged = "unset"
    /\ txn # NoTxn
    /\ flagged' = transaction_in_filtered_date(refDates, txn)
    /\ UNCHANGED <<refDates, txn>>
    /\ UNCHANGED notWashVars

----------------------------------------------------------------------------
\* The date filter string, in memory and as SQL (transaction.py).
\* A token is the list of its parts around "-"; a part is the day its
\* yymmdd text names, or Blank for the empty text.

Blank == 0

FilterDays == 1..MaxFilterDay

ProbeDays == 1..(MaxFilterDay + 1)

\* Well-formed tokens: yymmdd, or a range with either side optional.
DateTokens == {<<x>> : x \in FilterDays}
              \cup {<<l, r>> : l, r \in FilterDays \cup {Blank}}

\* parse_date(date_range).
parse_date(token) ==
    IF Len(token) >= 2
    THEN DateRange(IF token[1] # Blank THEN token[1] ELSE None,
                   IF token[2] # Blank THEN token[2] ELSE None)
    ELSE ExactDate(token[1])

ParseAll(toks) == [i \in 1..Len(toks) |-> parse_date(toks[i])]

\* SQL values: a date text, or NULL.  date('None') is NULL.
Null == -2

SQL_DATE(d) == IF d = None THEN Null ELSE d

\* date_range_filter_sql(date_range): the operator and its operands.
date_range_filter_sql(date_range) ==
    IF date_range.start # None /\ date_range.end # None
    THEN [op |-> "BETWEEN",
          args |-> <<SQL_DATE(date_range.start), SQL_DATE(date_range.end)>>]
    ELSE IF date_range.start # None
    THEN [op |-> ">=", args |-> <<SQL_DATE(date_range.start)>>]
    ELSE [op |-> "<=", args |-> <<SQL_DATE(date_range.end)>>]

\* _dates_filter_sql(field_name, dates): the clauses joined by OR.
dates_filter_clauses(date_ranges, single_dates) ==
    [i \in 1..Len(date_ranges) |-> date_range_filter_sql(date_ranges[i])]
    \o (IF single_dates # <<>>
        THEN <<[op |-> "IN",
                args |-> [i \in 1..Len(single_dates) |->
                             SQL_DATE(single_dates[i].day)]]>>
        ELSE <<>>)

\* dates_filter_sql(field_name, dates); <<>> is the empty string.
dates_filter_sql(toks) ==
    IF toks = <<>> THEN <<>>
    ELSE dates_filter_clauses(SelectKind(ParseAll(toks), "range"),
                              SelectKind(ParseAll(toks), "date"))

\* SQLite's value of one clause on a row whose field is d: "True", "False"
\* or "Null" (a comparison with NULL).
ClauseValue(clause, d) ==
    IF clause.op = "BETWEEN"
    THEN IF d >= clause.args[1] /\ d <= clause.args[2]
         THEN "True" ELSE "False"
    ELSE IF clause.op = ">="
    THEN IF clause.args[1] = Null THEN "Null"
         ELSE IF d >= clause.args[1] THEN "True" ELSE "False"
    ELSE IF clause.op = "<="
    THEN IF clause.args[1] = Null THEN "Null"
         ELSE IF d <= clause.args[1] THEN "True" ELSE "False"
    ELSE IF \E i \in 1..Len(clause.args) : clause.args[i] = d
         THEN "True" ELSE "False"

\* SQLite's three-valued OR over the clauses.
ConditionValue(clauses, d) ==
    IF \E i \in 1..Len(clauses) : ClauseValue(clauses[i], d) = "True"
    THEN "True"
    ELSE IF \E i \in 1..Len(clauses) : ClauseValue(clauses[i], d) = "Null"
    THEN "Null"
    ELSE "False"

\* Does WHERE (condition) keep the row?  No condition keeps every row.
RowSelected(clauses, d) ==
    IF clauses = <<>> THEN "True"
    ELSE IF ConditionValue(clauses, d) = "True" THEN "True" ELSE "False"

DateInit ==
    /\ tokens \in SeqsUpTo(DateTokens, MaxTokens)
    /\ probe \in ProbeDays
    /\ memResult = "unset"
    /\ sqlResult = "unset"

DateIdle ==
    /\ tokens = <<>>
    /\ probe = 1
    /\ memResult = "unset"
    /\ sqlResult = "unset"

\* in_date_range(parse_date(t) for t in tokens)(probe).
ApplyInDateRange ==
    /\ memResult = "unset"
    /\ memResult' = in_date_range(ParseAll(tokens), probe)
    /\ UNCHANGED <<tokens, probe, sqlResult>>
    /\ UNCHANGED notDateVars

\* The row with field = probe under WHERE (dates_filter_sql(field, s)).
ApplyDatesFilterSql ==
    /\ sqlResult = "unset"
    /\ sqlResult' = RowSelected(dates_filter_sql(tokens), probe)
    /\ UNCHANGED <<tokens, probe, memResult>>
    /\ UNCHANGED notDateVars

----------------------------------------------------------------------------
\* Symbol and account filters (transaction.py).  A text is a sequence of
\* pieces: a user-supplied character, a quote "'", or a fragment of fixed
\* query text that holds no quote.

Quote == "'"

SymChars == {"a", "A", ",", " ", Quote}

RowSymbols == {<<"a">>, <<"a", "a">>}

\* -account values: the choices argparse admits.
AccountTypes == {<<"both">>, <<"joint">>, <<"single">>}

\* str.lower() on the characters of the model.
LowerChar(c) ==
    IF c = "A" THEN "a" ELSE IF c = "C" THEN "c" ELSE IF c = "P" THEN "p"
    ELSE IF c = "X" THEN "x" ELSE c

Lower(text) == [i \in 1..Len(text) |-> LowerChar(text[i])]

\* str.strip(): leading and trailing blanks removed.
RECURSIVE Strip(_)
Strip(text) ==
    IF text = <<>> THEN <<>>
    ELSE IF Head(text) = " " THEN Strip(Tail(text))
    ELSE IF text[Len(text)] = " " THEN Strip(SubSeq(text, 1, Len(text) - 1))
    ELSE text

\* str.split(','): the parts between commas; one part if there is none.
RECURSIVE Split(_, _)
Split(text, cur) ==
    IF text = <<>> THEN <<cur>>
    ELSE IF Head(text) = "," THEN <<cur>> \o Split(Tail(text), <<>>)
    ELSE Split(Tail(text), Append(cur, Head(text)))

\* str.join over texts.
RECURSIVE Join(_, _)
Join(sep, texts) ==
    IF texts = <<>> THEN <<>>
    ELSE IF Len(texts) = 1 THEN texts[1]
    ELSE texts[1] \o sep \o Join(sep, Tail(texts))

\* transaction_in_filtered_symbols(transaction).
filter_transaction_by_symbols(syms, symbol) ==
    LET filtered_symbols ==
            IF syms = <<>> THEN {}
            ELSE {Strip(Lower(x)) : x \in Range(Split(syms, <<>>))}
    IN  IF filtered_symbols = {} THEN "True"
        ELSE IF symbol \in filtered_symbols THEN "True" ELSE "False"

\* f"'{x.strip()}'"
QuoteValue(x) == <<Quote>> \o Strip(x) \o <<Quote>>

\* new_symbols_filter_sql(symbols); <<>> is the empty string.
new_symbols_filter_sql(syms) ==
    IF syms = <<>> THEN <<>>
    ELSE LET parts == Split(syms, <<>>)
         IN  <<"symbol IN (">>
             \o Join(<<", ">>, [i \in 1..Len(parts) |-> QuoteValue(parts[i])])
             \o <<")">>

\* new_account_filter_sql(account_type).
new_account_filter_sql(account_type) ==
    IF account_type = <<"both">>
    THEN <<"SELECT account_number FROM account">>
    ELSE <<"SELECT account_number FROM account WHERE account_type = ">>
         \o <<Quote>> \o account_type \o <<Quote>>

\* A plausible slip: the categories are joined by OR.
new_where_sql_or_joined(account_filter, symbol_filter, expiration_filter, date_range_filter) ==
    LET where_clause ==
            (IF account_filter # <<>>
             THEN <<<<"(account_number IN (">> \o account_filter \o <<"))">>>>
             ELSE <<>>)
            \o (IF symbol_filter # <<>>
                THEN <<<<"(">> \o symbol_filter \o <<")">>>> ELSE <<>>)
            \o (IF expiration_filter # <<>>
                THEN <<<<"(">> \o expiration_filter \o <<")">>>> ELSE <<>>)
            \o (IF date_range_filter # <<>>
                THEN <<<<"(">> \o date_range_filter \o <<")">>>> ELSE <<>>)
    IN  IF where_clause # <<>>
        THEN <<" WHERE ">> \o Join(<<" OR ">>, where_clause)
        ELSE <<>>

\* new_where_sql(account_filter, symbol_filter, expiration_filter,
\* date_range_filter).
new_where_sql(account_filter, symbol_filter, expiration_filter, date_range_filter) ==
    LET where_clause ==
            (IF account_filter # <<>>
             THEN <<<<"(account_number IN (">> \o account_filter \o <<"))">>>>
             ELSE <<>>)
            \o (IF symbol_filter # <<>>
                THEN <<<<"(">> \o symbol_filter \o <<")">>>> ELSE <<>>)
            \o (IF expiration_filter # <<>>
                THEN <<<<"(">> \o expiration_filter \o <<")">>>> ELSE <<>>)
            \o (IF date_range_filter # <<>>
                THEN <<<<"(">> \o date_range_filter \o <<")">>>> ELSE <<>>)
    IN  IF where_clause # <<>>
        THEN <<" WHERE ">> \o Join(<<" AND ">>, where_clause)
        ELSE <<>>

\* SQLite reading a query text (conn.execute): a quote opens a string
\* literal, '' inside it is one quote character, a single quote closes it.
\* The result is the literals read, the text with each literal replaced by
\* "?", and whether the text ends outside a literal.
RECURSIVE SqlLex(_, _, _, _, _)
SqlLex(text, inside, cur, lits, skel) ==
    IF text = <<>>
    THEN [literals |-> lits, skeleton |-> skel, closed |-> ~inside]
    ELSE IF ~inside
    THEN IF Head(text) = Quote
         THEN SqlLex(Tail(text), TRUE, <<>>, lits, skel)
         ELSE SqlLex(Tail(text), FALSE, cur, lits, Append(skel, Head(text)))
    ELSE IF Head(text) # Quote
    THEN SqlLex(Tail(text), TRUE, Append(cur, Head(text)), lits, skel)
    ELSE IF Len(text) >= 2 /\ text[2] = Quote
    THEN SqlLex(Tail(Tail(text)), TRUE, Append(cur, Quote), lits, skel)
    ELSE SqlLex(Tail(text), FALSE, <<>>, Append(lits, cur),
                Append(skel, "?"))

SqlRead(text) == SqlLex(text, FALSE, <<>>, <<>>, <<>>)

\* The skeleton of symbol IN (?, ..., ?) with n literals.
InListSkeleton(n) ==
    <<"symbol IN (">> \o Join(<<", ">>, [i \in 1..n |-> <<"?">>]) \o <<")">>

\* SQLite's verdict on a row under WHERE (symbol_filter): the binary
\* comparison of the row's symbol with the literals of the list; a text that
\* is not a list of literals is rejected.  No filter keeps every row.
SymbolRowSelected(symbol_filter, symbol) ==
    IF symbol_filter = <<>> THEN "True"
    ELSE LET r == SqlRead(symbol_filter)
         IN  IF ~r.closed \/ r.literals = <<>>
                \/ r.skeleton # InListSkeleton(Len(r.literals))
             THEN "SyntaxError"
             ELSE IF symbol \in Range(r.literals) THEN "True" ELSE "False"

Unset == <<"unset">>

SymInit ==
    /\ symbols \in SeqsUpTo(SymChars, MaxSymLen)
    /\ accountType \in AccountTypes
    /\ rowSymbol \in RowSymbols
    /\ memSelected = "unset"
    /\ sqlSelected = "unset"
    /\ queryWhere = Unset

SymIdle ==
    /\ symbols = <<>>
    /\ accountType = <<"both">>
    /\ rowSymbol = <<"a">>
    /\ memSelected = "unset"
    /\ sqlSelected = "unset"
    /\ queryWhere = Unset

\* in_filtered_symbols(transaction) in _handle_csv.
ApplySymbolsMemory ==
    /\ memSelected = "unset"
    /\ memSelected' = filter_transaction_by_symbols(symbols, rowSymbol)
    /\ UNCHANGED <<symbols, accountType, rowSymbol, sqlSelected, queryWhere>>
    /\ UNCHANGED notSymVars

\* The trade row under WHERE (new_symbols_filter_sql(symbols)).
ApplySymbolsSql ==
    /\ sqlSelected = "unset"
    /\ sqlSelected' = SymbolRowSelected(new_symbols_filter_sql(symbols),
                                        rowSymbol)
    /\ UNCHANGED <<symbols, accountType, rowSymbol, memSelected, queryWhere>>
    /\ UNCHANGED notSymVars

\* _handle_db composing the WHERE text from -account and -symbols.
ComposeWhere ==
    /\ queryWhere = Unset
    /\ queryWhere' = new_where_sql(new_account_filter_sql(accountType),
                                   new_symbols_filter_sql(symbols),
                                   <<>>, <<>>)
    /\ UNCHANGED <<symbols, accountType, rowSymbol, memSelected, sqlSelected>>
    /\ UNCHANGED notSymVars

----------------------------------------------------------------------------
\* The composed WHERE clause on a row (transaction.py, new_where_sql and
\* _dates_filter_sql).  A condition such as sold_date <= date('2022-01-01')
\* is one piece of text; the row gives each condition SQLite's value.

CondAtoms == {"p", "q"}

TruthValues == {"True", "False", "Null"}

\* _dates_filter_sql: every alternative in parentheses, joined by OR.
dates_filter_text(alts) ==
    Join(<<" OR ">>, [i \in 1..Len(alts) |-> <<"(", alts[i], ")">>])

\* SQLite's three-valued AND and OR.
And3(a, b) ==
    IF a = "False" \/ b = "False" THEN "False"
    ELSE IF a = "Null" \/ b = "Null" THEN "Null" ELSE "True"

Or3(a, b) ==
    IF a = "True" \/ b = "True" THEN "True"
    ELSE IF a = "Null" \/ b = "Null" THEN "Null" ELSE "False"

SqlError == [val |-> "SyntaxError", rest |-> <<>>]

\* SQLite evaluating the text after WHERE: OR binds weaker than AND,
\* parentheses group, account_number IN (subquery) is one condition.
RECURSIVE SqlExpr(_, _), SqlTerm(_, _), SqlFactor(_, _)
SqlFactor(text, truth) ==
    IF text = <<>> THEN SqlError
    ELSE IF Head(text) = "("
    THEN LET e == SqlExpr(Tail(text), truth)
         IN  IF e.val = "SyntaxError" \/ e.rest = <<>> THEN SqlError
             ELSE IF Head(e.rest) # ")" THEN SqlError
             ELSE [val |-> e.val, rest |-> Tail(e.rest)]
    ELSE IF Head(text) = "(account_number IN ("
    THEN IF Len(text) < 3 THEN SqlError
         ELSE IF text[2] \notin DOMAIN truth \/ text[3] # "))" THEN SqlError
         ELSE [val |-> truth[text[2]], rest |-> SubSeq(text, 4, Len(text))]
    ELSE IF Head(text) \in DOMAIN truth
    THEN [val |-> truth[Head(text)], rest |-> Tail(text)]
    ELSE SqlError

SqlTerm(text, truth) ==
    LET f == SqlFactor(text, truth)
    IN  IF f.val = "SyntaxError" \/ f.rest = <<>> THEN f
        ELSE IF Head(f.rest) # " AND " THEN f
        ELSE LET t == SqlTerm(Tail(f.rest), truth)
             IN  IF t.val = "SyntaxError" THEN SqlError
                 ELSE [val |-> And3(f.val, t.val), rest |-> t.rest]

SqlExpr(text, truth) ==
    LET t == SqlTerm(text, truth)
    IN  IF t.val = "SyntaxError" \/ t.rest = <<>> THEN t
        ELSE IF Head(t.rest) # " OR " THEN t
        ELSE LET e == SqlExpr(Tail(t.rest), truth)
             IN  IF e.val = "SyntaxError" THEN SqlError
                 ELSE [val |-> Or3(t.val, e.val), rest |-> e.rest]

\* conn.execute(SELECT_TRADE_SQL + where_sql + ...): does the row come back?
WhereSelects(where_sql, truth) ==
    IF where_sql = <<>> THEN "True"
    ELSE IF Head(where_sql) # " WHERE " THEN "SyntaxError"
    ELSE LET e == SqlExpr(Tail(where_sql), truth)
         IN  IF e.val = "SyntaxError" \/ e.rest # <<>> THEN "SyntaxError"
             ELSE IF e.val = "True" THEN "True" ELSE "False"

WhereInit ==
    /\ acctCond \in SeqsUpTo(CondAtoms, 1)
    /\ symCond \in SeqsUpTo(CondAtoms, 1)
    /\ expAlts \in SeqsUpTo(CondAtoms, MaxAlts)
    /\ dateAlts \in SeqsUpTo(CondAtoms, MaxAlts)
    /\ rowTruth \in [CondAtoms -> TruthValues]
    /\ whereText = Unset
    /\ whereSelected = "unset"

WhereIdle ==
    /\ acctCond = <<>>
    /\ symCond = <<>>
    /\ expAlts = <<>>
    /\ dateAlts = <<>>
    /\ rowTruth = [a \in CondAtoms |-> "False"]
    /\ whereText = Unset
    /\ whereSelected = "unset"

\* _handle_db: the WHERE text is composed and the query is executed.
QueryWhere ==
    /\ whereSelected = "unset"
    /\ whereText' = new_where_sql(acctCond, symCond,
                                  dates_filter_text(expAlts),
                                  dates_filter_text(dateAlts))
    /\ whereSelected' = WhereSelects(whereText', rowTruth)
    /\ UNCHANGED <<acctCond, symCond, expAlts, dateAlts, rowTruth>>
    /\ UNCHANGED notWhereVars

----------------------------------------------------------------------------
\* Symbol decoder (record.py, extract_symbol).  The code's indices count
\* from 0; At0 and Slice0 are s[i] and s[a:b].

Min(a, b) == IF a < b THEN a ELSE b

At0(s, i) == s[i + 1]

Slice0(s, a, b) == IF a >= Min(b, Len(s)) THEN <<>>
                   ELSE SubSeq(s, a + 1, Min(b, Len(s)))

Digits == {"0", "1", "2", "3", "4", "5", "6", "7", "8", "9"}

DigitValue(c) ==
    CASE c = "0" -> 0 [] c = "1" -> 1 [] c = "2" -> 2 [] c = "3" -> 3
      [] c = "4" -> 4 [] c = "5" -> 5 [] c = "6" -> 6 [] c = "7" -> 7
      [] c = "8" -> 8 [] c = "9" -> 9

OPTION_TYPES == {"c", "p", "C", "P"}

\* value.index('('), counted from 0; -1 where index raises ValueError.
RECURSIVE IndexOf(_, _, _)
IndexOf(s, c, i) ==
    IF i >= Len(s) THEN -1
    ELSE IF At0(s, i) = c THEN i
    ELSE IndexOf(s, c, i + 1)

\* The loop over enumerate(symbol_raw): the first digit, or -1.
RECURSIVE FirstDigit(_, _)
FirstDigit(s, i) ==
    IF i >= Len(s) THEN -1
    ELSE IF At0(s, i) \in Digits THEN i
    ELSE FirstDigit(s, i + 1)

DaysInMonth(y, m) ==
    IF m = 2 THEN (IF y % 4 = 0 /\ (y % 100 # 0 \/ y % 400 = 0)
                   THEN 29 ELSE 28)
    ELSE IF m \in {4, 6, 9, 11} THEN 30 ELSE 31

NoDate == <<0, 0, 0>>

\* A plausible slip: the text read as yyddmm.
extract_option_date_day_first(text) ==
    IF Len(text) # 6 \/ \E i \in 1..Len(text) : text[i] \notin Digits
    THEN "ValueError"
    ELSE LET yy == 10 * DigitValue(text[1]) + DigitValue(text[2])
             dd == 10 * DigitValue(text[3]) + DigitValue(text[4])
             mm == 10 * DigitValue(text[5]) + DigitValue(text[6])
             y == IF yy < 69 THEN 2000 + yy ELSE 1900 + yy
         IN  IF mm \notin 1..12 THEN "ValueError"
             ELSE IF dd \notin 1..DaysInMonth(y, mm) THEN "ValueError"
             ELSE <<y, mm, dd>>

\* extract_option_date: datetime.strptime(value, '%y%m%d').date(), as
\* <<year, month, day>>, or "ValueError".
extract_option_date(text) ==
    IF Len(text) # 6 \/ \E i \in 1..Len(text) : text[i] \notin Digits
    THEN "ValueError"
    ELSE LET yy == 10 * DigitValue(text[1]) + DigitValue(text[2])
             mm == 10 * DigitValue(text[3]) + DigitValue(text[4])
             dd == 10 * DigitValue(text[5]) + DigitValue(text[6])
             y == IF yy < 69 THEN 2000 + yy ELSE 1900 + yy
         IN  IF mm \notin 1..12 THEN "ValueError"
             ELSE IF dd \notin 1..DaysInMonth(y, mm) THEN "ValueError"
             ELSE <<y, mm, dd>>

\* The digits of text read as a whole number.
RECURSIVE DigitsValue(_)
DigitsValue(text) ==
    IF text = <<>> THEN 0
    ELSE 10 * DigitsValue(SubSeq(text, 1, Len(text) - 1))
         + DigitValue(text[Len(text)])

\* Decimal(text) for unsigned text of digits and at most one point, in
\* thousandths; -1 where Decimal raises InvalidOperation.
DecimalOf(text) ==
    LET dot == IndexOf(text, ".", 0)
        whole == IF dot = -1 THEN text ELSE Slice0(text, 0, dot)
        frac == IF dot = -1 THEN <<>> ELSE Slice0(text, dot + 1, Len(text))
        scaled == frac \o SubSeq(<<"0", "0", "0">>, 1, 3 - Len(frac))
    IN  IF whole \o frac = <<>> \/ Len(frac) > 3 THEN -1
        ELSE IF \E i \in 1..Len(whole \o frac) :
                   (whole \o frac)[i] \notin Digits THEN -1
        ELSE 1000 * DigitsValue(whole) + DigitsValue(scaled)

Raised(exception) ==
    [status |-> exception, symbol |-> <<>>, cusip |-> <<>>,
     expiration |-> NoDate, option_type |-> "none", strike |-> None]

Returned(symbol, cusip, expiration, option_type, strike) ==
    [status |-> "ok", symbol |-> symbol, cusip |-> cusip,
     expiration |-> expiration, option_type |-> option_type,
     strike |-> strike]

\* The return of an option: the date and the strike are converted first.
OptionReturn(root, cusip, date_text, type_char, strike_text) ==
    IF extract_option_date(date_text) = "ValueError" THEN Raised("ValueError")
    ELSE IF DecimalOf(strike_text) = -1 THEN Raised("InvalidOperation")
    ELSE Returned(Lower(root), cusip, extract_option_date(date_text),
                  LowerChar(type_char), DecimalOf(strike_text))

\* The for loop of extract_symbol at its first n, if it has one: the name
\* OPTIONS_TYPES it tests against is not defined.
ScanForOptionType(symbol_raw, digit_start) ==
    IF digit_start + 7 >= Len(symbol_raw) + 1 THEN Raised("ValueError")
    ELSE IF digit_start + 7 >= Len(symbol_raw) THEN Raised("IndexError")
    ELSE Raised("NameError")

\* extract_symbol(value).
extract_symbol(value) ==
    LET cusip_start_pos == IndexOf(value, "(", 0)
        symbol_raw == Slice0(value, 0, cusip_start_pos)
        cusip == Slice0(value, cusip_start_pos + 1, Len(value) - 1)
        digit_start == FirstDigit(symbol_raw, 0)
    IN  IF cusip_start_pos = -1 THEN Raised("ValueError")
        ELSE IF digit_start = -1
        THEN Returned(Lower(symbol_raw), cusip, NoDate, "none", None)
        ELSE IF digit_start # 0 /\ digit_start + 6 >= Len(symbol_raw)
        THEN Raised("IndexError")
        ELSE IF digit_start # 0
                /\ At0(symbol_raw, digit_start + 6) \in OPTION_TYPES
        THEN OptionReturn(Slice0(symbol_raw, 0, digit_start), cusip,
                          Slice0(symbol_raw, digit_start, digit_start + 6),
                          At0(symbol_raw, digit_start + 6),
                          Slice0(symbol_raw, digit_start + 7,
                                 Len(symbol_raw)))
        ELSE ScanForOptionType(symbol_raw, digit_start)

\* The descriptors of the model: a root of letters and digits, then nothing
\* (a stock), an option block, or a broken block, then "(ID)" or nothing.
RootChars == {"X", "c", "2"}

DateTexts == {<<"1", "4", "0", "6", "2", "0">>,
              <<"9", "9", "0", "2", "3", "0">>}

StrikeTexts == {<<"1", "5">>, <<"1", ".", "5", "0">>}

OptionBlocks == [kind: {"option"}, date: DateTexts, type: {"c", "P"},
                 strike: StrikeTexts]

BrokenBlocks == {[kind |-> "short", date |-> <<"1", "4">>, type |-> "",
                  strike |-> <<>>],
                 [kind |-> "untyped", date |-> <<"1", "4", "0", "6", "2", "0">>,
                  type |-> "", strike |-> <<"1", "5">>]}

StockBlock == [kind |-> "stock", date |-> <<>>, type |-> "", strike |-> <<>>]

DescTails == {<<"(", "I", "D", ")">>, <<>>}

DescriptorParts ==
    [root: SeqsUpTo(RootChars, MaxRootLen),
     block: OptionBlocks \cup BrokenBlocks \cup {StockBlock},
     tail: DescTails]

BlockText(b) ==
    b.date \o (IF b.type = "" THEN <<>> ELSE <<b.type>>) \o b.strike

DescriptorText(p) == p.root \o BlockText(p.block) \o p.tail

NotDecoded == Raised("unset")

DecodeInit ==
    /\ descParts \in DescriptorParts
    /\ descriptor = DescriptorText(descParts)
    /\ decoded = NotDecoded

DecodeIdle ==
    /\ descParts = [root |-> <<>>, block |-> StockBlock, tail |-> <<>>]
    /\ descriptor = <<>>
    /\ decoded = NotDecoded

\* extract_symbol(csv_entry[SYMBOL]) in csv_entry_to_transaction.
DecodeSymbol ==
    /\ decoded = NotDecoded
    /\ descriptor # <<>>
    /\ decoded' = extract_symbol(descriptor)
    /\ UNCHANGED <<descParts, descriptor>>
    /\ UNCHANGED notDecodeVars

----------------------------------------------------------------------------
\* Currency fields (record.py, convert_currency).

Amount(status, amount) == [status |-> status, amount |-> amount]

\* Decimal(text) with an optional minus sign, for texts with at most three
\* decimal places: the amount in thousandths, or InvalidOperation.
Decimal(text) ==
    LET negative == text # <<>> /\ text[1] = "-"
        digits == IF negative THEN Slice0(text, 1, Len(text)) ELSE text
    IN  IF DecimalOf(digits) = -1 THEN Amount("InvalidOperation", 0)
        ELSE Amount("ok", IF negative THEN -DecimalOf(digits)
                          ELSE DecimalOf(digits))

Negated(a) == IF a.status = "ok" THEN Amount("ok", -a.amount) ELSE a

\* convert_currency(value): value[0] is read before value is tested for
\* being empty, and the parenthesized form is read from value[2:-1].
convert_currency(value) ==
    IF value = <<>> THEN Amount("IndexError", 0)
    ELSE IF At0(value, 0) = "$"
    THEN Decimal(Slice0(value, 1, Len(value)))
    ELSE IF At0(value, 0) = "("
    THEN Negated(Decimal(Slice0(value, 2, Len(value) - 1)))
    ELSE IF value = <<"-">> THEN Amount("ok", 0)
    ELSE Amount("ValueError", 0)

CurrencyChars == {"$", "(", ")", "-", "5", ".", ","}

NotConverted == Amount("unset", 0)

CurrencyInit ==
    /\ amountText \in SeqsUpTo(CurrencyChars, MaxAmountLen)
    /\ converted = NotConverted

CurrencyIdle ==
    /\ amountText = <<>>
    /\ converted = Amount("idle", 0)

\* convert_currency(csv_entry[PROCEED]) and (csv_entry[COST]) in
\* build_transaction.
ConvertCurrency ==
    /\ converted = NotConverted
    /\ converted' = convert_currency(amountText)
    /\ UNCHANGED amountText
    /\ UNCHANGED notCurrencyVars

----------------------------------------------------------------------------
\* Reading a CSV file (record.py, csv_entry_to_transaction and
\* csv_to_transactions).  The dates and the quantity of every row are
\* well-formed; the symbol, the proceeds and the cost vary.

\* str.rstrip(): trailing blanks removed.
RECURSIVE RStrip(_)
RStrip(text) ==
    IF text = <<>> THEN <<>>
    ELSE IF text[Len(text)] = " "
    THEN RStrip(SubSeq(text, 1, Len(text) - 1))
    ELSE text

CsvSymbols ==
    {p \in DescriptorParts :
        /\ p.root = <<"X">>
        /\ p.block.kind = "option" =>
              /\ p.block.date = <<"1", "4", "0", "6", "2", "0">>
              /\ p.block.type = "c"
              /\ p.block.strike = <<"1", "5">>
        /\ p.tail = <<>> => p.block = StockBlock}

ProceedTexts == {<<"$", "5">>, <<"$", "5", " ">>, <<"5">>,
                 <<"$", "5", ",", "5">>}

CostTexts == {<<"$", "5">>, <<"5">>}

CsvEntries == [symbol: CsvSymbols, proceed: ProceedTexts, cost: CostTexts]

\* csv_entry_to_transaction(csv_entry, account_number): the transaction,
\* or the exception of the first conversion that fails; the except clause
\* logs a ValueError and raises it again.
csv_entry_to_transaction(csv_entry) ==
    LET holding == extract_symbol(DescriptorText(csv_entry.symbol))
        proceed == convert_currency(RStrip(csv_entry.proceed))
        cost == convert_currency(RStrip(csv_entry.cost))
        status == IF holding.status # "ok" THEN holding.status
                  ELSE IF proceed.status # "ok" THEN proceed.status
                  ELSE cost.status
    IN  [status |-> status,
         holding |-> IF status = "ok" THEN holding ELSE Raised(status),
         proceed |-> IF status = "ok" THEN proceed.amount ELSE 0,
         cost |-> IF status = "ok" THEN cost.amount ELSE 0]

CsvInit ==
    /\ csvFile \in SeqsUpTo(CsvEntries, MaxCsvRows)
    /\ csvLine = 1
    /\ yielded = <<>>
    /\ csvOutcome = "reading"

CsvIdle ==
    /\ csvFile = <<>>
    /\ csvLine = 0
    /\ yielded = <<>>
    /\ csvOutcome = "idle"

\* One turn of the loop of csv_to_transactions: the entry is yielded, or
\* skipped on ValueError; any other exception leaves the generator.
ReadEntry ==
    /\ csvOutcome = "reading"
    /\ csvLine <= Len(csvFile)
    /\ LET t == csv_entry_to_transaction(csvFile[csvLine])
       IN  IF t.status = "ok"
           THEN /\ yielded' = Append(yielded, [line |-> csvLine,
                                               transaction |-> t])
                /\ csvLine' = csvLine + 1
                /\ UNCHANGED csvOutcome
           ELSE IF t.status = "ValueError"
           THEN /\ csvLine' = csvLine + 1
                /\ UNCHANGED <<yielded, csvOutcome>>
           ELSE /\ csvOutcome' = t.status
                /\ UNCHANGED <<yielded, csvLine>>
    /\ UNCHANGED csvFile
    /\ UNCHANGED notCsvVars

\* The reader has no more rows: the generator returns.
EndOfFile ==
    /\ csvOutcome = "reading"
    /\ csvLine > Len(csvFile)
    /\ csvOutcome' = "exhausted"
    /\ UNCHANGED <<csvFile, csvLine, yielded>>
    /\ UNCHANGED notCsvVars

----------------------------------------------------------------------------
\* Text report (transaction.py, _handle_csv, _handle_db, report_in_text).

ReportEntries == [symbol: {"aapl", "msft"}, cusip: {"c1"},
                  description: {"d"}, quantity: {1000},
                  acquired_date: {100}, sold_date: {200},
                  proceed: {12000, 9000}, cost: {10000}]

\* A Transaction as csv_to_transactions yields it: the fields of the
\* dataclass, transaction_id assigned by __post_init__.
CsvTransaction(entry) ==
    LET t == build_transaction("A1", entry)
    IN  [account_number |-> t.account_number, holding |-> t.holding,
         cusip |-> t.cusip, description |-> t.description,
         quantity |-> t.quantity, acquired_date |-> t.acquired_date,
         sold_date |-> t.sold_date, cost |-> t.cost, proceed |-> t.proceed,
         transaction_id |-> <<KeyOf(t), 1>>]

\* _to_decimal: Decimal(value) / 100, in thousandths.
ToDecimal(value) == 10 * value

\* trade_row_to_transaction(row): a Transaction from a row of trade.
trade_row_to_transaction(row) ==
    [account_number |-> row.account_number,
     holding |-> [class |-> row.equity_class, symbol |-> row.symbol,
                  strike |-> ToDecimal(row.strike),
                  expiration |-> row.expiration],
     cusip |-> row.cusip, description |-> row.description,
     quantity |-> ToDecimal(row.quantity),
     acquired_date |-> row.acquired_date, sold_date |-> row.sold_date,
     cost |-> ToDecimal(row.cost), proceed |-> ToDecimal(row.proceed),
     transaction_id |-> row.transaction_id]

StoredTransaction(entry) ==
    LET t == build_transaction("A2", entry)
    IN  trade_row_to_transaction(transaction_to_trade(t, <<KeyOf(t), 1>>))

ReportTransactions ==
    {CsvTransaction(e) : e \in ReportEntries}
        \cup {StoredTransaction(e) : e \in ReportEntries}

\* getattr on a dataclass instance: the attribute has to be a field.
HasAttr(object, name) == name \in DOMAIN object

\* final_result[transaction.holding.symbol].append(transaction), for every
\* transaction: the groups in first-seen order.
RECURSIVE GroupBySymbol(_, _)
GroupBySymbol(transactions, groups) ==
    IF transactions = <<>> THEN groups
    ELSE LET t == Head(transactions)
             at == {g \in 1..Len(groups) :
                        groups[g].symbol = t.holding.symbol}
         IN  GroupBySymbol(Tail(transactions),
                 IF at = {}
                 THEN Append(groups, [symbol |-> t.holding.symbol,
                                      transactions |-> <<t>>])
                 ELSE [g \in 1..Len(groups) |->
                          IF g \in at
                          THEN [groups[g] EXCEPT
                                   !.transactions = Append(@, t)]
                          ELSE groups[g]])

\* The inner loop of report_in_text from transaction k on: the lines of
\* the rows and the total of the group; extract_report_component and the
\* test of the total both read transaction.wash_sale.
RECURSIVE GroupRows(_, _, _, _, _)
GroupRows(symbol, transactions, k, lines, total) ==
    IF k > Len(transactions)
    THEN [status |-> "ok", lines |-> lines, total |-> total]
    ELSE LET t == transactions[k]
         IN  IF ~HasAttr(t, "wash_sale")
             THEN [status |-> "AttributeError", lines |-> lines,
                   total |-> total]
             ELSE GroupRows(symbol, transactions, k + 1,
                     Append(lines, [kind |-> "row", symbol |-> symbol,
                                    amount |-> t.proceed - t.cost]),
                     IF t.wash_sale = "False"
                     THEN total + (t.proceed - t.cost) ELSE total)

ReportInit ==
    /\ reportSource \in SeqsUpTo(ReportTransactions, MaxReport)
    /\ reportResult = GroupBySymbol(reportSource, <<>>)
    /\ reportAt = 0
    /\ reportLines = <<>>
    /\ totalSummary = 0
    /\ reportOutcome = "reporting"

ReportIdle ==
    /\ reportSource = <<>>
    /\ reportResult = <<>>
    /\ reportAt = 0
    /\ reportLines = <<>>
    /\ totalSummary = 0
    /\ reportOutcome = "idle"

\* The three header lines and total_summary = Decimal(0).
ReportHeader ==
    /\ reportOutcome = "reporting"
    /\ reportAt = 0
    /\ reportAt' = 1
    /\ reportLines' = <<[kind |-> "header", symbol |-> "", amount |-> 0]>>
    /\ totalSummary' = 0
    /\ UNCHANGED <<reportSource, reportResult, reportOutcome>>
    /\ UNCHANGED notReportVars

\* One turn of the outer loop: the rows of a group, then its total.
ReportGroup ==
    /\ reportOutcome = "reporting"
    /\ reportAt \in 1..Len(reportResult)
    /\ LET group == reportResult[reportAt]
           rows == GroupRows(group.symbol, group.transactions, 1,
                             reportLines, 0)
       IN  IF rows.status = "ok"
           THEN /\ reportLines' = Append(rows.lines,
                                    [kind |-> "gain/loss",
                                     symbol |-> group.symbol,
                                     amount |-> rows.total])
                /\ totalSummary' = totalSummary + rows.total
                /\ reportAt' = reportAt + 1
                /\ UNCHANGED reportOutcome
           ELSE /\ reportLines' = rows.lines
                /\ reportOutcome' = rows.status
                /\ UNCHANGED <<totalSummary, reportAt>>
    /\ UNCHANGED <<reportSource, reportResult>>
    /\ UNCHANGED notReportVars

\* After the last group: the line of the grand total.
ReportTotal ==
    /\ reportOutcome = "reporting"
    /\ reportAt = Len(reportResult) + 1
    /\ reportLines' = Append(reportLines,
                             [kind |-> "total gain/loss", symbol |-> "",
                              amount |-> totalSummary])
    /\ reportOutcome' = "done"
    /\ UNCHANGED <<reportSource, reportResult, reportAt, totalSummary>>
    /\ UNCHANGED notReportVars

----------------------------------------------------------------------------
\* Inserting a batch (database.py, insert_transactions, insert_to_db).  The
\* transactions carry the transaction_id they were constructed with.

BatchIds == {"id1", "id2"}

\* Transaction(..., transaction_id): __post_init__ keeps a given id.
BatchTransactions ==
    {[transaction |-> build_transaction("A1", e), transaction_id |-> i] :
        e \in CsvRows, i \in BatchIds}

\* transactions_to_trades(transactions).
transactions_to_trades(transactions) ==
    [k \in 1..Len(transactions) |->
        transaction_to_trade(transactions[k].transaction,
                             transactions[k].transaction_id)]

\* The rows trade can hold before the call: one id, already stored or not.
StoredBefore ==
    {{}, {transaction_to_trade(
              build_transaction("A1", CHOOSE e \in CsvRows : TRUE), "id1")}}

InsertInit ==
    /\ batch \in SeqsUpTo(BatchTransactions, MaxBatch)
    /\ tradeTbl \in StoredBefore
    /\ tradeTblBefore = tradeTbl
    /\ accountRows = {row.account_number : row \in tradeTbl}
    /\ symbolRows = {row.symbol : row \in tradeTbl}
    /\ insertOutcome = "pending"

InsertIdle ==
    /\ batch = <<>>
    /\ tradeTbl = {}
    /\ tradeTblBefore = {}
    /\ accountRows = {}
    /\ symbolRows = {}
    /\ insertOutcome = "idle"

\* insert_to_db(connection): the ids in trade are read once; the accounts
\* and symbols of the trades whose id is not among them are inserted and
\* committed, then those trades go to one executemany and a commit.  A
\* repeated PRIMARY KEY makes executemany raise before that commit.
InsertBatch ==
    /\ insertOutcome = "pending"
    /\ LET existing_transaction_ids ==
               {row.transaction_id : row \in tradeTbl}
           trades_not_in_db ==
               SelectSeq(transactions_to_trades(batch),
                   LAMBDA x : x.transaction_id \notin existing_transaction_ids)
       IN  /\ accountRows' = accountRows \cup
                  {trades_not_in_db[k].account_number :
                      k \in 1..Len(trades_not_in_db)}
           /\ symbolRows' = symbolRows \cup
                  {trades_not_in_db[k].symbol :
                      k \in 1..Len(trades_not_in_db)}
           /\ IF PrimaryKeyOk(tradeTbl, trades_not_in_db)
              THEN /\ tradeTbl' = tradeTbl \cup Range(trades_not_in_db)
                   /\ insertOutcome' = "done"
              ELSE /\ tradeTbl' = tradeTbl
                   /\ insertOutcome' = "IntegrityError"
    /\ UNCHANGED <<batch, tradeTblBefore>>
    /\ UNCHANGED notInsertVars

----------------------------------------------------------------------------
\* CaseInsensitiveDict (db/schema.py).  A key is a string, given as its
\* text, or a number.  The object is its _name_map, set by __init__ with
\* super().__setattr__, and the entries of the dict it extends.

StrKey(text) == [type |-> "str", text |-> text, number |-> 0]

IntKey(number) == [type |-> "int", text |-> <<>>, number |-> number]

EmptyMap == [k \in {} |-> 0]

EmptyDict == [name_map |-> EmptyMap, entries |-> EmptyMap]

Put(map, k, v) ==
    IF k \in DOMAIN map THEN [map EXCEPT ![k] = v] ELSE map @@ (k :> v)

Outcome(status, value) == [status |-> status, value |-> value]

\* self._name_map inside a method: __getattribute__("_name_map") finds the
\* map with super().__getattribute__, and when the map itself has the key
\* "_name_map" it returns self[...] instead, whose __getitem__ evaluates
\* self._name_map again: the lookup never ends (RecursionError).
NameMapReadable(d) == <<"_name_map">> \notin DOMAIN d.name_map

\* __setitem__(k, v).
ci_setitem(d, k, v) ==
    IF k.type # "str"
    THEN [status |-> "ok", dict |-> [d EXCEPT !.entries = Put(@, k, v)]]
    ELSE IF ~NameMapReadable(d)
    THEN [status |-> "RecursionError", dict |-> d]
    ELSE IF Lower(k.text) \in DOMAIN d.name_map
    THEN [status |-> "ok",
          dict |-> [d EXCEPT !.entries =
                       Put(@, StrKey(d.name_map[Lower(k.text)]), v)]]
    ELSE [status |-> "ok",
          dict |-> [name_map |-> Put(d.name_map, Lower(k.text), k.text),
                    entries |-> Put(d.entries, k, v)]]

\* __getitem__(k).
ci_getitem(d, k) ==
    IF k.type = "str" /\ ~NameMapReadable(d)
    THEN Outcome("RecursionError", 0)
    ELSE IF k.type = "str" /\ Lower(k.text) \in DOMAIN d.name_map
    THEN LET stored == StrKey(d.name_map[Lower(k.text)])
         IN  IF stored \in DOMAIN d.entries
             THEN Outcome("ok", d.entries[stored])
             ELSE Outcome("KeyError", 0)
    ELSE IF k \in DOMAIN d.entries THEN Outcome("ok", d.entries[k])
    ELSE Outcome("KeyError", 0)

\* __getattribute__(a) for a name that is no attribute of dict.
ci_getattribute(d, a) ==
    IF Lower(a) \in DOMAIN d.name_map
    THEN ci_getitem(d, StrKey(d.name_map[Lower(a)]))
    ELSE Outcome("AttributeError", 0)

\* __setattr__(a, v).
ci_setattr(d, a, v) ==
    IF ~NameMapReadable(d) THEN [status |-> "RecursionError", dict |-> d]
    ELSE IF Lower(a) \in DOMAIN d.name_map
    THEN ci_setitem(d, StrKey(d.name_map[Lower(a)]), v)
    ELSE ci_setitem(d, StrKey(a), v)

\* __contains__(key).
ci_contains(d, key) ==
    IF key.type = "str"
    THEN IF ~NameMapReadable(d) THEN "RecursionError"
         ELSE IF Lower(key.text) \in DOMAIN d.name_map THEN "True"
         ELSE "False"
    ELSE IF key \in DOMAIN d.entries THEN "True" ELSE "False"

\* len(d): the method of dict.
ci_len(d) == Cardinality(DOMAIN d.entries)

KeyTexts == {<<"a">>, <<"A">>, <<"_name_map">>}

DictKeys == {StrKey(t) : t \in KeyTexts} \cup {IntKey(1)}

DictValues == {1, 2}

\* The key an assignment is about: a string key by its lower-cased form.
Folded(k) == IF k.type = "str" THEN StrKey(Lower(k.text)) ELSE k

DictInit ==
    /\ dictObj = EmptyDict
    /\ assigned = EmptyMap
    /\ firstUsed = EmptyMap
    /\ lastRaised = "none"
    /\ assignments = 0

DictIdle ==
    /\ dictObj = EmptyDict
    /\ assigned = EmptyMap
    /\ firstUsed = EmptyMap
    /\ lastRaised = "none"
    /\ assignments = -1

Record(k, v, result) ==
    /\ dictObj' = result.dict
    /\ lastRaised' = IF result.status = "ok" THEN "none" ELSE result.status
    /\ assigned' = Put(assigned, Folded(k), v)
    /\ firstUsed' = IF Folded(k) \in DOMAIN firstUsed THEN firstUsed
                    ELSE Put(firstUsed, Folded(k), k)
    /\ assignments' = assignments + 1

\* d[k] = v.
SetItem ==
    /\ assignments \in 0..(MaxAssign - 1)
    /\ \E k \in DictKeys, v \in DictValues :
          Record(k, v, ci_setitem(dictObj, k, v))
    /\ UNCHANGED notDictVars

\* d.a = v.
SetAttr ==
    /\ assignments \in 0..(MaxAssign - 1)
    /\ \E a \in KeyTexts, v \in DictValues :
          Record(StrKey(a), v, ci_setattr(dictObj, a, v))
    /\ UNCHANGED notDictVars

----------------------------------------------------------------------------
\* Table, Column and ForeignKey (db/schema.py).  A Table object is the
\* attributes __init__ gives it with object.__setattr__: name and c.

NoForeignKey == [table |-> "", column |-> <<>>]

\* ForeignKey(table, column): a dataclass, nothing is looked up.
ForeignKey(table, column) == [table |-> table, column |-> column]

\* Column(name, data_type, foreign_key=...).
Column(name, foreign_key) == [name |-> name, foreign_key |-> foreign_key]

\* Table.__getattribute__(a): "c" and "C" are both looked up as "C".
LookedUp(a) == IF a = "c" \/ a = "C" THEN "C" ELSE a

TableHasAttr(object, a) == LookedUp(a) \in DOMAIN object

\* add_column(column): self.c is evaluated first.
add_column(object, column) ==
    IF ~TableHasAttr(object, "c")
    THEN [status |-> "AttributeError", object |-> object]
    ELSE IF ci_contains(object[LookedUp("c")], StrKey(column.name)) = "True"
    THEN [status |-> "ValueError", object |-> object]
    ELSE [status |-> "ok",
          object |-> [object EXCEPT ![LookedUp("c")] =
                         ci_setitem(@, StrKey(column.name), column).dict]]

\* The loop of __init__ from column i on.
RECURSIVE AddColumns(_, _, _)
AddColumns(object, columns, i) ==
    IF i > Len(columns) THEN [status |-> "ok", object |-> object]
    ELSE LET added == add_column(object, columns[i])
         IN  IF added.status # "ok" THEN added
             ELSE AddColumns(added.object, columns, i + 1)

\* Table(name, *columns).
Table(name, columns) ==
    AddColumns([name |-> name, c |-> EmptyDict], columns, 1)

ColumnNames == {<<"a">>, <<"A">>, <<"b">>}

NoTable == [status |-> "none", object |-> [name |-> "", c |-> EmptyDict]]

TableInit ==
    /\ columnsOne \in SeqsUpTo(ColumnNames, MaxColumns)
    /\ columnsTwo \in SeqsUpTo(ColumnNames, MaxColumns)
    /\ tableOne = NoTable
    /\ tableTwo = NoTable

TableIdle ==
    /\ columnsOne = <<>>
    /\ columnsTwo = <<>>
    /\ tableOne = [NoTable EXCEPT !.status = "idle"]
    /\ tableTwo = [NoTable EXCEPT !.status = "idle"]

\* t1 = Table("t1", Column(...), ...).
NewTableOne ==
    /\ tableOne.status = "none"
    /\ tableOne' = Table("t1", [i \in 1..Len(columnsOne) |->
                                   Column(columnsOne[i], NoForeignKey)])
    /\ UNCHANGED <<columnsOne, columnsTwo, tableTwo>>
    /\ UNCHANGED notTableVars

\* t2 = Table("t2", Column(..., foreign_key=ForeignKey(t1, ...)), ...),
\* once there is a t1 to refer to.
NewTableTwo ==
    /\ tableOne.status = "ok"
    /\ tableTwo.status = "none"
    /\ tableTwo' = Table("t2", [i \in 1..Len(columnsTwo) |->
                                   Column(columnsTwo[i],
                                       IF i = 1 THEN ForeignKey("t1", <<"a">>)
                                       ELSE NoForeignKey)])
    /\ UNCHANGED <<columnsOne, columnsTwo, tableOne>>
    /\ UNCHANGED notTableVars

----------------------------------------------------------------------------
\* Transaction to Trade and back (database.py, transactions_to_trades and
\* trade_to_transaction).  Amounts are in thousandths, so some have a
\* third decimal place.

STOCK_CLASS == "stock"

CALL_CLASS == "call"

PUT_CLASS == "put"

\* A plausible slip: every class other than stock restored as a Call.
trade_to_transaction_call_default(trade) ==
    [account_number |-> trade.account_number,
     holding |-> IF trade.equity_class = STOCK_CLASS
                 THEN [class |-> "stock", symbol |-> trade.symbol,
                       strike |-> 0, expiration |-> None]
                 ELSE [class |-> "call", symbol |-> trade.symbol,
                       strike |-> ToDecimal(trade.strike),
                       expiration |-> trade.expiration],
     cusip |-> trade.cusip, description |-> trade.description,
     quantity |-> ToDecimal(trade.quantity),
     acquired_date |-> trade.acquired_date, sold_date |-> trade.sold_date,
     cost |-> ToDecimal(trade.cost), proceed |-> ToDecimal(trade.proceed),
     transaction_id |-> trade.transaction_id]

\* trade_to_transaction(trade): Stock, Call, and Put for any other class.
trade_to_transaction(trade) ==
    [account_number |-> trade.account_number,
     holding |-> IF trade.equity_class = STOCK_CLASS
                 THEN [class |-> "stock", symbol |-> trade.symbol,
                       strike |-> 0, expiration |-> None]
                 ELSE IF trade.equity_class = CALL_CLASS
                 THEN [class |-> "call", symbol |-> trade.symbol,
                       strike |-> ToDecimal(trade.strike),
                       expiration |-> trade.expiration]
                 ELSE [class |-> "put", symbol |-> trade.symbol,
                       strike |-> ToDecimal(trade.strike),
                       expiration |-> trade.expiration],
     cusip |-> trade.cusip, description |-> trade.description,
     quantity |-> ToDecimal(trade.quantity),
     acquired_date |-> trade.acquired_date, sold_date |-> trade.sold_date,
     cost |-> ToDecimal(trade.cost), proceed |-> ToDecimal(trade.proceed),
     transaction_id |-> trade.transaction_id]

Holdings ==
    {[class |-> "stock", symbol |-> "aapl", strike |-> 0,
      expiration |-> None]}
    \cup [class: {"call", "put"}, symbol: {"aapl"},
          strike: {15000, 15500, 15005}, expiration: {300}]

RoundTransactions ==
    [account_number: {"A1"}, holding: Holdings, cusip: {"c1"},
     description: {"d"}, quantity: {1000, 1500, 1005},
     acquired_date: {100}, sold_date: {200},
     cost: {10000, 10010, 10004}, proceed: {12000, -50250, 12004},
     transaction_id: {"id1"}]

NoTransaction ==
    [account_number |-> "",
     holding |-> [class |-> "none", symbol |-> "", strike |-> 0,
                  expiration |-> None],
     cusip |-> "",
     description |-> "", quantity |-> 0, acquired_date |-> None,
     sold_date |-> None, cost |-> 0, proceed |-> 0, transaction_id |-> ""]

NoTrade == transaction_to_trade(NoTransaction, "")

RoundInit ==
    /\ original \in RoundTransactions
    /\ asTrade = NoTrade
    /\ restored = NoTransaction

RoundIdle ==
    /\ original = NoTransaction
    /\ asTrade = NoTrade
    /\ restored = NoTransaction

\* The Trade transactions_to_trades yields for the transaction.
MakeTrade ==
    /\ original # NoTransaction
    /\ asTrade = NoTrade
    /\ asTrade' = transactions_to_trades(
                      <<[transaction |-> original,
                         transaction_id |-> original.transaction_id]>>)[1]
    /\ UNCHANGED <<original, restored>>
    /\ UNCHANGED notRoundVars

\* trade_to_transaction of that Trade.
RestoreTransaction ==
    /\ asTrade # NoTrade
    /\ restored = NoTransaction
    /\ restored' = trade_to_transaction(asTrade)
    /\ UNCHANGED <<original, asTrade>>
    /\ UNCHANGED notRoundVars

----------------------------------------------------------------------------
\* Specifications.

Init == IngestInit /\ GainIdle /\ WashIdle /\ DateIdle /\ SymIdle /\
    WhereIdle /\ DecodeIdle /\ CurrencyIdle /\ CsvIdle /\ ReportIdle /\
    InsertIdle /\ DictIdle /\ TableIdle /\ RoundIdle

Next == StartIngest \/ BuildRow \/ InsertToDb \/ NewProcess

Spec == Init /\ [][Next]_vars

GainInit == IngestIdle /\ GainIdle /\ WashIdle /\ DateIdle /\ SymIdle /\
    WhereIdle /\ DecodeIdle /\ CurrencyIdle /\ CsvIdle /\ ReportIdle /\
    InsertIdle /\ DictIdle /\ TableIdle /\ RoundIdle

GainNext == FoldGainLoss

SpecGain == GainInit /\ [][GainNext]_vars

WashSpecInit == IngestIdle /\ GainIdle /\ WashInit /\ DateIdle /\ SymIdle /\
    WhereIdle /\ DecodeIdle /\ CurrencyIdle /\ CsvIdle /\ ReportIdle /\
    InsertIdle /\ DictIdle /\ TableIdle /\ RoundIdle

WashNext == ApplyDateFilter

SpecWash == WashSpecInit /\ [][WashNext]_vars

DateSpecInit == IngestIdle /\ GainIdle /\ WashIdle /\ DateInit /\ SymIdle /\
    WhereIdle /\ DecodeIdle /\ CurrencyIdle /\ CsvIdle /\ ReportIdle /\
    InsertIdle /\ DictIdle /\ TableIdle /\ RoundIdle

DateNext == ApplyInDateRange \/ ApplyDatesFilterSql

SpecDate == DateSpecInit /\ [][DateNext]_vars

SymSpecInit == IngestIdle /\ GainIdle /\ WashIdle /\ DateIdle /\ SymInit /\
    WhereIdle /\ DecodeIdle /\ CurrencyIdle /\ CsvIdle /\ ReportIdle /\
    InsertIdle /\ DictIdle /\ TableIdle /\ RoundIdle

SymNext == ApplySymbolsMemory \/ ApplySymbolsSql \/ ComposeWhere

SpecSym == SymSpecInit /\ [][SymNext]_vars

WhereSpecInit == IngestIdle /\ GainIdle /\ WashIdle /\ DateIdle /\ SymIdle
    /\ WhereInit /\ DecodeIdle /\ CurrencyIdle /\ CsvIdle /\ ReportIdle /\
    InsertIdle /\ DictIdle /\ TableIdle /\ RoundIdle

WhereNext == QueryWhere

SpecWhere == WhereSpecInit /\ [][WhereNext]_vars

DecodeSpecInit == IngestIdle /\ GainIdle /\ WashIdle /\ DateIdle /\ SymIdle
    /\ WhereIdle /\ DecodeInit /\ CurrencyIdle /\ CsvIdle /\ ReportIdle /\
    InsertIdle /\ DictIdle /\ TableIdle /\ RoundIdle

DecodeNext == DecodeSymbol

SpecDecode == DecodeSpecInit /\ [][DecodeNext]_vars

CurrencySpecInit == IngestIdle /\ GainIdle /\ WashIdle /\ DateIdle /\
    SymIdle /\ WhereIdle /\ DecodeIdle /\ CurrencyInit /\ CsvIdle /\
    ReportIdle /\ InsertIdle /\ DictIdle /\ TableIdle /\ RoundIdle

CurrencyNext == ConvertCurrency

SpecCurrency == CurrencySpecInit /\ [][CurrencyNext]_vars

CsvSpecInit == IngestIdle /\ GainIdle /\ WashIdle /\ DateIdle /\ SymIdle /\
    WhereIdle /\ DecodeIdle /\ CurrencyIdle /\ CsvInit /\ ReportIdle /\
    InsertIdle /\ DictIdle /\ TableIdle /\ RoundIdle

CsvNext == ReadEntry \/ EndOfFile

SpecCsv == CsvSpecInit /\ [][CsvNext]_vars

ReportSpecInit == IngestIdle /\ GainIdle /\ WashIdle /\ DateIdle /\ SymIdle
    /\ WhereIdle /\ DecodeIdle /\ CurrencyIdle /\ CsvIdle /\ ReportInit /\
    InsertIdle /\ DictIdle /\ TableIdle /\ RoundIdle

ReportNext == ReportHeader \/ ReportGroup \/ ReportTotal

SpecReport == ReportSpecInit /\ [][ReportNext]_vars

InsertSpecInit == IngestIdle /\ GainIdle /\ WashIdle /\ DateIdle /\ SymIdle
    /\ WhereIdle /\ DecodeIdle /\ CurrencyIdle /\ CsvIdle /\ ReportIdle /\
    InsertInit /\ DictIdle /\ TableIdle /\ RoundIdle

InsertNext == InsertBatch

SpecInsert == InsertSpecInit /\ [][InsertNext]_vars

DictSpecInit == IngestIdle /\ GainIdle /\ WashIdle /\ DateIdle /\ SymIdle /\
    WhereIdle /\ DecodeIdle /\ CurrencyIdle /\ CsvIdle /\ ReportIdle /\
    InsertIdle /\ DictInit /\ TableIdle /\ RoundIdle

DictNext == SetItem \/ SetAttr

SpecDict == DictSpecInit /\ [][DictNext]_vars

TableSpecInit == IngestIdle /\ GainIdle /\ WashIdle /\ DateIdle /\ SymIdle
    /\ WhereIdle /\ DecodeIdle /\ CurrencyIdle /\ CsvIdle /\ ReportIdle /\
    InsertIdle /\ DictIdle /\ TableInit /\ RoundIdle

TableNext == NewTableOne \/ NewTableTwo

SpecTable == TableSpecInit /\ [][TableNext]_vars

RoundSpecInit == IngestIdle /\ GainIdle /\ WashIdle /\ DateIdle /\ SymIdle
    /\ WhereIdle /\ DecodeIdle /\ CurrencyIdle /\ CsvIdle /\ ReportIdle /\
    InsertIdle /\ DictIdle /\ TableIdle /\ RoundInit

RoundNext == MakeTrade \/ RestoreTransaction

SpecRound == RoundSpecInit /\ [][RoundNext]_vars

----------------------------------------------------------------------------
\* Claims about ingestion.

\* The sequence number a counter confined to the current ingestion would
\* give the i-th id of ids: the occurrences of its key among the first i.
OccurrenceIn(ids, i) ==
    Cardinality({j \in 1..i : ids[j][1] = ids[i][1]})

\* C1: ingesting the file again, in the same process or in a new one, leaves
\* table trade exactly as the first ingestion left it.
C1_ReingestionIdempotent ==
    (pc = "idle" /\ ingestions >= 1) => store = snapshot

\* C2: every invocation of csv_to_transactions numbers each key from 1, so
\* the ids of a run do not depend on what the process built before.
C2_CounterConfinedToRun ==
    \A i \in 1..Len(runIds) : runIds[i][2] = OccurrenceIn(runIds, i)

\* C3: the transactions built by a process without an explicit id have
\* pairwise distinct ids; the n-th occurrence of a key is hashed with
\* sequence number n.
C3_DistinctIds ==
    /\ \A i, j \in 1..Len(procIds) : procIds[i] = procIds[j] => i = j
    /\ \A i \in 1..Len(procIds) : procIds[i][2] = OccurrenceIn(procIds, i)

\* Two rows with the same key tuple have gone through generate_id.
C3_Witness ==
    \E i, j \in 1..Len(procIds) : i < j /\ procIds[i][1] = procIds[j][1]

----------------------------------------------------------------------------
\* Claims about the gain fold.

\* C4: every gain goes to exactly one of the two totals (a stock held
\* exactly 365 days to short term), so short + long is the sum of gains.
C4_GainSplit ==
    cumulative[1] + cumulative[2] = totalGain

----------------------------------------------------------------------------
\* Claims about the csv date filter.

\* Some reference date's inclusive 30-day window holds the day.
InSomeWindow(R, d) ==
    \E r \in R : r - DEFAULT_DAY_RANGE <= d /\ d <= r + DEFAULT_DAY_RANGE

\* C5: with reference dates given, a stock transaction is flagged exactly
\* when its acquired or its sold date lies in [r - 30, r + 30] for some r.
C5_StockWindow ==
    (flagged # "unset" /\ refDates # {} /\ txn.class = "stock") =>
        /\ flagged \in {"True", "False"}
        /\ flagged = "True" <=>
              (InSomeWindow(refDates, txn.acquired_date)
               \/ InSomeWindow(refDates, txn.sold_date))

\* A stock flagged by its acquired date alone, which sits on the last day
\* of a window, while the sold date is outside every window.
C5_Witness ==
    /\ flagged = "True" /\ txn.class = "stock"
    /\ \E r \in refDates : txn.acquired_date = r + DEFAULT_DAY_RANGE
    /\ ~InSomeWindow(refDates, txn.sold_date)

\* C6 as claimed: an option is flagged if its acquired or sold date is in a
\* window, or if its expiration is a reference date.
C6_OptionWindowOrExpiration ==
    (flagged # "unset" /\ refDates # {} /\ IsOption(txn.class)
     /\ (InSomeWindow(refDates, txn.acquired_date)
         \/ InSomeWindow(refDates, txn.sold_date)
         \/ txn.expiration \in refDates))
    => flagged = "True"

\* C6 amended: with reference dates given, an option is flagged exactly
\* when its expiration is one of them; the windows are not consulted.
C6_OptionExpirationOnly ==
    (flagged # "unset" /\ refDates # {} /\ IsOption(txn.class)) =>
        (flagged = "True" <=> txn.expiration \in refDates)

\* An option traded inside a window but expiring on no reference date has
\* been tested and is not flagged.
C6_Witness ==
    /\ flagged = "False" /\ IsOption(txn.class)
    /\ InSomeWindow(refDates, txn.acquired_date)
    /\ InSomeWindow(refDates, txn.sold_date)
    /\ txn.expiration \notin refDates

----------------------------------------------------------------------------
\* Claims about the date filter string.

\* What the claim says a single entry answers for day d.
EntryMatches(e, d) ==
    IF e.kind = "date" THEN d = e.day
    ELSE IF e.start # None /\ e.end # None THEN e.start <= d /\ d <= e.end
    ELSE IF e.start # None THEN d >= e.start
    ELSE IF e.end # None THEN d <= e.end
    ELSE FALSE

\* C7: for a single entry, is_date_in_range returns a boolean, never
\* raises, and the boolean is the entry's membership test.
C7_SingleEntry ==
    (memResult # "unset" /\ Len(tokens) = 1) =>
        memResult = (IF EntryMatches(parse_date(tokens[1]), probe)
                     THEN "True" ELSE "False")

\* C8: for a well-formed filter string the SQL condition keeps a row whose
\* field is d exactly when in_date_range of the parsed tokens is true of d.
C8_SqlAgreesWithMemory ==
    (memResult # "unset" /\ sqlResult # "unset" /\ tokens # <<>>) =>
        sqlResult = memResult

\* C21: is_date_in_range is the disjunction of its entries, whatever their
\* order: it is true exactly when at least one entry matches the date, and
\* an interval with both bounds absent does not keep another entry from
\* matching.  Stated for the calls that return; the TypeError of an
\* interval without a start is C7's subject.
C21_DisjunctionOfEntries ==
    (memResult # "unset" /\ memResult # "TypeError") =>
        memResult = (IF \E i \in 1..Len(tokens) :
                           EntryMatches(parse_date(tokens[i]), probe)
                     THEN "True" ELSE "False")

----------------------------------------------------------------------------
\* Claims about the symbol and account filters.

\* C9: on a row whose stored root symbol is lower case, the SQL condition of
\* new_symbols_filter_sql selects the row exactly when the in-memory
\* predicate of filter_transaction_by_symbols does; an empty symbols string
\* selects everything in both.  Stated for symbols strings without a quote
\* character, whose SQL text is always a well-formed list.
C9_SymbolFilterAgrees ==
    (memSelected # "unset" /\ sqlSelected # "unset"
     /\ Quote \notin Range(symbols)) =>
        /\ sqlSelected = memSelected
        /\ symbols = <<>> => memSelected = "True"

\* The values interpolated into the WHERE text, in order of appearance.
UserValues ==
    (IF accountType = <<"both">> THEN <<>> ELSE <<accountType>>)
    \o (IF symbols = <<>> THEN <<>>
        ELSE LET parts == Split(symbols, <<>>)
             IN  [i \in 1..Len(parts) |-> Strip(parts[i])])

\* The WHERE text composed from the same filters with every value emptied.
BlankWhere ==
    new_where_sql(
        IF accountType = <<"both">> THEN new_account_filter_sql(accountType)
        ELSE new_account_filter_sql(<<>>),
        IF symbols = <<>> THEN <<>>
        ELSE <<"symbol IN (">>
             \o Join(<<", ">>, [i \in 1..Len(Split(symbols, <<>>)) |->
                                  QuoteValue(<<>>)])
             \o <<")">>,
        <<>>, <<>>)

\* C10: in the composed WHERE text every user value sits inside one string
\* literal: the literals SQLite reads are exactly the values, the last one
\* is closed, and the text around them is the fixed query text.
C10_ValuesStayInLiterals ==
    queryWhere # Unset =>
        /\ SqlRead(queryWhere).closed
        /\ SqlRead(queryWhere).literals = UserValues
        /\ SqlRead(queryWhere).skeleton = SqlRead(BlankWhere).skeleton

----------------------------------------------------------------------------
\* Claims about the composed WHERE clause.

\* The row satisfies a category: one of its alternatives is true of it.
Satisfied(alts) == \E i \in 1..Len(alts) : rowTruth[alts[i]] = "True"

\* C11: the row is selected exactly when it satisfies every non-empty
\* category (account, symbol, expiration, sold date), a category being the
\* OR of its alternatives; with all four empty there is no WHERE clause and
\* the row is selected.
C11_WhereIsAndOfCategories ==
    whereSelected # "unset" =>
        /\ whereSelected =
             (IF \A c \in {acctCond, symCond, expAlts, dateAlts} :
                    c # <<>> => Satisfied(c)
              THEN "True" ELSE "False")
        /\ (acctCond = <<>> /\ symCond = <<>> /\ expAlts = <<>>
            /\ dateAlts = <<>>) => whereText = <<>>

\* A query with an account condition, no symbol condition and a sold-date
\* filter whose first alternative fails and whose second holds has selected
\* the row.
C11_Witness ==
    /\ whereSelected = "True"
    /\ acctCond # <<>> /\ symCond = <<>>
    /\ Len(dateAlts) = 2
    /\ rowTruth[dateAlts[1]] # "True" /\ rowTruth[dateAlts[2]] = "True"

\* The date and the decimal each text of the model's descriptors stands for.
DateWritten(text) ==
    CASE text = <<"1", "4", "0", "6", "2", "0">> -> <<2014, 6, 20>>
      [] text = <<"9", "9", "0", "2", "3", "0">> -> NoDate
      [] OTHER -> NoDate

StrikeWritten(text) ==
    CASE text = <<"1", "5">> -> 15000
      [] text = <<"1", ".", "5", "0">> -> 1500
      [] OTHER -> None

NoDigitIn(text) == \A i \in 1..Len(text) : text[i] \notin Digits

IdWritten(tail) == SubSeq(tail, 2, Len(tail) - 1)

\* C12: a descriptor ROOT + yymmdd + option type + STRIKE + "(" + ID + ")"
\* with a non-empty ROOT without digits decodes to (ROOT lower-cased, ID,
\* the date, the type lower-cased, STRIKE as a decimal); a descriptor with
\* no digit before "(" decodes to (ROOT lower-cased, ID, None, None, None).
C12_DecodesGrammar ==
    (decoded # NotDecoded /\ descParts.tail # <<>>
        /\ NoDigitIn(descParts.root)) =>
      /\ (/\ descParts.block.kind = "option"
          /\ descParts.root # <<>>
          /\ DateWritten(descParts.block.date) # NoDate) =>
            decoded = Returned(Lower(descParts.root),
                               IdWritten(descParts.tail),
                               DateWritten(descParts.block.date),
                               LowerChar(descParts.block.type),
                               StrikeWritten(descParts.block.strike))
      /\ descParts.block.kind = "stock" =>
            decoded = Returned(Lower(descParts.root),
                               IdWritten(descParts.tail),
                               NoDate, "none", None)

C12_Witness ==
    /\ decoded.status = "ok"
    /\ descParts.root = <<"X", "c">>
    /\ decoded.symbol = <<"x", "c">>
    /\ decoded.option_type = "p"
    /\ decoded.strike = 1500
    /\ decoded.expiration = <<2014, 6, 20>>

\* C13: when the character 6 places after the first digit d of symbol_raw
\* is not an option-type character, extract_symbol finds the first
\* option-type character at an index n >= d+7 and returns root =
\* symbol_raw[:n-6] lower-cased, expiration = symbol_raw[n-6:n], type =
\* symbol_raw[n], strike = symbol_raw[n+1:].
C13_ScansForOptionBlock ==
    LET paren == IndexOf(descriptor, "(", 0)
        symbol_raw == Slice0(descriptor, 0, paren)
        d == FirstDigit(symbol_raw, 0)
        later == {n \in (d + 7)..(Len(symbol_raw) - 1) :
                      At0(symbol_raw, n) \in OPTION_TYPES}
        n == CHOOSE m \in later : \A k \in later : m <= k
    IN  (/\ decoded # NotDecoded
         /\ paren # -1 /\ d # -1
         /\ d + 6 < Len(symbol_raw)
         /\ At0(symbol_raw, d + 6) \notin OPTION_TYPES
         /\ later # {}
         /\ DateWritten(Slice0(symbol_raw, n - 6, n)) # NoDate
         /\ StrikeWritten(Slice0(symbol_raw, n + 1, Len(symbol_raw))) # None)
        => decoded = Returned(Lower(Slice0(symbol_raw, 0, n - 6)),
                              Slice0(descriptor, paren + 1, Len(descriptor) - 1),
                              DateWritten(Slice0(symbol_raw, n - 6, n)),
                              LowerChar(At0(symbol_raw, n)),
                              StrikeWritten(Slice0(symbol_raw, n + 1,
                                                   Len(symbol_raw))))

\* The texts of the currency grammar "$" DECIMAL | "(" DECIMAL ")" | "" | "-"
\* and the amounts they stand for, in thousandths.
IsDecimal(text) == Decimal(text).status = "ok"

DollarForm(text) ==
    /\ text # <<>> /\ text[1] = "$"
    /\ IsDecimal(SubSeq(text, 2, Len(text)))

ParenForm(text) ==
    /\ Len(text) >= 2 /\ text[1] = "(" /\ text[Len(text)] = ")"
    /\ IsDecimal(SubSeq(text, 2, Len(text) - 1))

InCurrencyGrammar(text) ==
    DollarForm(text) \/ ParenForm(text) \/ text = <<>> \/ text = <<"-">>

\* C15: "$X" converts to +X and "(X)" to -X for every decimal X, the empty
\* string and "-" convert to 0, and every other text fails.
C15_CurrencyGrammar ==
    converted # NotConverted =>
      /\ DollarForm(amountText) =>
            converted = Decimal(SubSeq(amountText, 2, Len(amountText)))
      /\ ParenForm(amountText) =>
            converted = Negated(Decimal(SubSeq(amountText, 2,
                                               Len(amountText) - 1)))
      /\ amountText \in {<<>>, <<"-">>} => converted = Amount("ok", 0)
      /\ ~InCurrencyGrammar(amountText) => converted.status # "ok"

\* A symbol descriptor of the grammar: a stock or an option block after a
\* root without digits, then "(ID)".
WellFormedSymbol(p) ==
    /\ p.tail # <<>>
    /\ NoDigitIn(p.root)
    /\ \/ p.block.kind = "stock"
       \/ p.block.kind = "option" /\ DateWritten(p.block.date) # NoDate

FieldsConvert(entry) ==
    /\ convert_currency(RStrip(entry.proceed)).status = "ok"
    /\ convert_currency(RStrip(entry.cost)).status = "ok"

YieldedLines == {yielded[k].line : k \in 1..Len(yielded)}

\* C14: a row whose symbol does not match the grammar is skipped; the read
\* goes on to the end of the file and yields the transaction of every
\* well-formed row before and after it.
C14_MalformedSymbolSkipped ==
    (/\ csvOutcome \notin {"reading", "idle"}
     /\ \A i \in 1..Len(csvFile) : FieldsConvert(csvFile[i]))
    => /\ csvOutcome = "exhausted"
       /\ YieldedLines =
            {i \in 1..Len(csvFile) : WellFormedSymbol(csvFile[i].symbol)}

\* C16: when the proceeds or cost of a row is outside the currency grammar,
\* the failure leaves csv_to_transactions and no later row is yielded.
C16_CurrencyFailurePropagates ==
    LET bad == {i \in 1..Len(csvFile) :
                   \/ ~InCurrencyGrammar(RStrip(csvFile[i].proceed))
                   \/ ~InCurrencyGrammar(RStrip(csvFile[i].cost))}
    IN  (/\ csvOutcome \notin {"reading", "idle"}
         /\ \A i \in 1..Len(csvFile) : WellFormedSymbol(csvFile[i].symbol)
         /\ bad # {})
        => /\ csvOutcome # "exhausted"
           /\ \A i \in bad : \A j \in YieldedLines : j < i

\* The gain of the transactions of a sequence that carry no wash-sale flag.
Flagged(t) == IF HasAttr(t, "wash_sale") THEN t.wash_sale = "True" ELSE FALSE

RECURSIVE UnflaggedGain(_)
UnflaggedGain(transactions) ==
    IF transactions = <<>> THEN 0
    ELSE (IF Flagged(Head(transactions)) THEN 0
          ELSE Head(transactions).proceed - Head(transactions).cost)
         + UnflaggedGain(Tail(transactions))

LinesOf(kind) == SelectSeq(reportLines, LAMBDA line : line.kind = kind)

\* C17: for transactions of the csv path or the store path grouped by
\* symbol, report_in_text completes; it lists every transaction as a row,
\* reports for each group the gain of its unflagged transactions, and a
\* grand total that is the sum of the group totals.
C17_ReportTotals ==
    reportOutcome \notin {"idle", "reporting"} =>
      /\ reportOutcome = "done"
      /\ Len(LinesOf("row")) = Len(reportSource)
      /\ Len(LinesOf("gain/loss")) = Len(reportResult)
      /\ \A g \in 1..Len(reportResult) :
            /\ LinesOf("gain/loss")[g].symbol = reportResult[g].symbol
            /\ LinesOf("gain/loss")[g].amount =
                  UnflaggedGain(reportResult[g].transactions)
      /\ LinesOf("total gain/loss") =
            <<[kind |-> "total gain/loss", symbol |-> "",
               amount |-> UnflaggedGain(reportSource)]>>

\* C18: for every batch, also one that holds two transactions with the
\* same transaction_id, insert_to_db completes without raising; trade ends
\* with exactly one row for every transaction_id of the batch and of the
\* rows stored before, and those rows are unchanged.
C18_DuplicateIdNeverAnError ==
    insertOutcome \notin {"idle", "pending"} =>
      /\ insertOutcome = "done"
      /\ tradeTblBefore \subseteq tradeTbl
      /\ \A r1, r2 \in tradeTbl :
            r1.transaction_id = r2.transaction_id => r1 = r2
      /\ {r.transaction_id : r \in tradeTbl} =
            {r.transaction_id : r \in tradeTblBefore}
                \cup {batch[k].transaction_id : k \in 1..Len(batch)}

\* C19: after any sequence of item or attribute assignments, every spelling
\* of a string key reads the last value assigned under any spelling, by
\* item access, by attribute access and by `in`; the entry is stored under
\* the first spelling used, kept in _name_map; a non-string key behaves as
\* in a plain dict; len counts the distinct keys.
C19_CaseInsensitiveKeys ==
    assignments >= 0 =>
      /\ lastRaised = "none"
      /\ \A k \in DictKeys :
            Folded(k) \in DOMAIN assigned =>
              /\ ci_getitem(dictObj, k) = Outcome("ok", assigned[Folded(k)])
              /\ ci_contains(dictObj, k) = "True"
              /\ k.type = "str" =>
                    /\ ci_getattribute(dictObj, k.text) =
                          Outcome("ok", assigned[Folded(k)])
                    /\ firstUsed[Folded(k)] \in DOMAIN dictObj.entries
                    /\ dictObj.name_map[Lower(k.text)] =
                          firstUsed[Folded(k)].text
      /\ \A k \in DictKeys :
            Folded(k) \notin DOMAIN assigned =>
               ci_contains(dictObj, k) = "False"
      /\ ci_len(dictObj) = Cardinality(DOMAIN assigned)

DistinctNames(names) ==
    \A i, j \in 1..Len(names) : Lower(names[i]) = Lower(names[j]) => i = j

Registered(table, names) ==
    \A i \in 1..Len(names) :
        /\ ci_getitem(table.object.c, StrKey(names[i])).status = "ok"
        /\ ci_getitem(table.object.c, StrKey(names[i])).value.name = names[i]

\* C20: Table(name, *columns) with column names that are pairwise distinct
\* when compared case-insensitively constructs without raising and has
\* every column in its column map under its name; a second table whose
\* column refers to the first with a ForeignKey constructs likewise.
C20_TableRegistersColumns ==
    /\ (tableOne.status \notin {"none", "idle"} /\ DistinctNames(columnsOne))
          => (tableOne.status = "ok" /\ Registered(tableOne, columnsOne))
    /\ (tableTwo.status \notin {"none", "idle"} /\ DistinctNames(columnsTwo))
          => (tableTwo.status = "ok" /\ Registered(tableTwo, columnsTwo))

\* An amount in thousandths with at most two decimal places.
TwoPlaces(m) == m % 10 = 0

\* C22: for a Transaction (Stock, Call or Put) whose quantity, cost,
\* proceed and strike have at most two decimal places, trade_to_transaction
\* of its Trade equals the Transaction in every field; a Stock has
\* equity_class 'stock', strike 0 and no expiration, and only a call or a
\* put has an expiration.
C22_TradeRoundTrip ==
    /\ (/\ restored # NoTransaction
        /\ TwoPlaces(original.quantity) /\ TwoPlaces(original.cost)
        /\ TwoPlaces(original.proceed)
        /\ TwoPlaces(original.holding.strike)) => restored = original
    /\ asTrade # NoTrade =>
          /\ original.holding.class = "stock" =>
                /\ asTrade.equity_class = "stock"
                /\ asTrade.strike = 0
                /\ asTrade.expiration = None
          /\ asTrade.expiration # None =>
                asTrade.equity_class \in {"call", "put"}

C22_Witness ==
    /\ restored = original
    /\ original.holding.class = "put"
    /\ original.holding.strike = 15500
    /\ original.proceed = -50250
    /\ original.quantity = 1500
    /\ asTrade.strike = 1550 /\ asTrade.proceed = -5025

====
